---- MODULE Spec2Model ----
(***************************************************************************)
(* Dependency-analysis toolkit: the dependency graph, the reachability    *)
(* queries (transitive closure, dependents, dependencies, chains) of the  *)
(* dependency-analysis lambda and the entry-point ranking of the          *)
(* minimal-dependency-finder lambda.                                      *)
(*                                                                         *)
(* Numbers that the code holds as floats (weights, multipliers, scores)   *)
(* are held in tenths: 1.0 is 10, 0.7 is 7, 0.3 is 3.                      *)
(***************************************************************************)
EXTENDS Integers, Sequences, FiniteSets, TLC

VARIABLES
    graph,                  \* dict: component name -> list of dependency names
    order,                  \* iteration order of the dicts graph / components
    ctype,                  \* components[name]['type']
    res,                    \* the last query answered (SpecReach)
    pc,                     \* position of the running procedure
    stack,                  \* call stack of get_all_transitive_dependencies
    retval,                 \* what the outermost call returned
    expanded,               \* per node: how often its adjacency list was walked
    weights_config,         \* the weight configuration of the request
    missing_data,           \* rows of the missing-component table
    missing_by_parent,      \* dict: parent name -> list of missing records
    transaction_mapping,    \* the transaction names of the CSD mapping
    req,                    \* target_type and entry_point_types of the request
    scan_pos,               \* position of the loop over components.items()
    entry_point_candidates, \* the candidates found so far
    ranking                 \* what the ranking returned

closureVars == <<stack, retval, expanded>>

rankVars == <<weights_config, missing_data, missing_by_parent, transaction_mapping,
              req, scan_pos, entry_point_candidates, ranking>>

vars == <<graph, order, ctype, res, pc, closureVars, rankVars>>

----------------------------------------------------------------------------
(* Bounds of the model. *)

\* total number of dependency edges of a graph
MaxEdges == 3

\* largest max_depth handed to get_dependency_chains
MaxDepth == 3

Names == {"A", "B", "C"}

\* The dict keeps insertion order; components are named in that order, so a
\* graph of n components has the first n names as keys (a name that is no key
\* is a dangling dependency target).
NameOrder == <<"A", "B", "C">>

Prefix(n) == [i \in 1..n |-> NameOrder[i]]

Range(s) == {s[i] : i \in 1..Len(s)}

SeqsOver(S, n) == UNION {[1..k -> S] : k \in 0..n}

RECURSIVE GraphsOver(_, _)
GraphsOver(dom, budget) ==
    IF dom = {} THEN {[x \in {} |-> <<>>]}
    ELSE LET n == CHOOSE x \in dom : TRUE
         IN  UNION {{(n :> adj) @@ g : g \in GraphsOver(dom \ {n}, budget - Len(adj))} :
                        adj \in SeqsOver(Names, budget)}

\* type of each component in the reachability queries
TypeOfName == [n \in Names |-> IF n = "A" THEN "JCL" ELSE IF n = "B" THEN "COB" ELSE "CPY"]

----------------------------------------------------------------------------
(* dependency-analysis/lambda_function.py *)

\* line 384: the recursive call gets visited.copy(), so what the callee adds
\* to its set is not seen by the caller or by the callee's siblings
RECURSIVE get_all_transitive_dependencies(_, _, _)
get_all_transitive_dependencies_NoRecursion(start, g, visited) ==
    IF start \in visited \/ start \notin DOMAIN g THEN {}
    ELSE Range(g[start])

get_all_transitive_dependencies(start, g, visited) ==
    IF start \in visited \/ start \notin DOMAIN g THEN {}
    ELSE LET v == visited \cup {start}
         IN  UNION {{g[start][i]} \cup get_all_transitive_dependencies(g[start][i], g, v) :
                        i \in 1..Len(g[start])}

TypeOf(types, n) == IF n \in DOMAIN types THEN types[n] ELSE "Unknown"

Deps(g, n) == IF n \in DOMAIN g THEN g[n] ELSE <<>>

\* lines 291-304, 308-321: the record of one dependent; direction and
\* access_type are those of the one entry of its access_details
dependent_record(comp_name, g, types, target, relationship) ==
    [component_name |-> comp_name,
     component_type |-> TypeOf(types, comp_name),
     dependency_count |-> Len(g[comp_name]),
     target |-> target,
     relationship |-> relationship,
     direction |-> <<comp_name, target>>,
     access_type |-> "Would Be Affected",
     is_target |-> FALSE]

find_dependents_NoSelfSkip(target, g, ord, types, include_transitive) ==
    LET RECURSIVE scan(_)
        scan(i) ==
            IF i > Len(ord) THEN <<>>
            ELSE LET comp_name == ord[i]
                     here == IF target \in Range(g[comp_name])
                             THEN <<dependent_record(comp_name, g, types, target, "Direct")>>
                             ELSE IF include_transitive
                                     /\ target \in get_all_transitive_dependencies(comp_name, g, {})
                             THEN <<dependent_record(comp_name, g, types, target, "Transitive")>>
                             ELSE <<>>
                 IN  here \o scan(i + 1)
    IN  scan(1)

find_dependents_DirectOnly(target, g, ord, types, include_transitive) ==
    LET RECURSIVE scan(_)
        scan(i) ==
            IF i > Len(ord) THEN <<>>
            ELSE LET comp_name == ord[i]
                     here == IF comp_name = target THEN <<>>
                             ELSE IF target \in Range(g[comp_name])
                             THEN <<dependent_record(comp_name, g, types, target, "Direct")>>
                             ELSE <<>>
                 IN  here \o scan(i + 1)
    IN  scan(1)

\* lines 281-323; graph.items() iterates in the order ord
find_dependents(target, g, ord, types, include_transitive) ==
    LET RECURSIVE scan(_)
        scan(i) ==
            IF i > Len(ord) THEN <<>>
            ELSE LET comp_name == ord[i]
                     here == IF comp_name = target THEN <<>>
                             ELSE IF target \in Range(g[comp_name])
                             THEN <<dependent_record(comp_name, g, types, target, "Direct")>>
                             ELSE IF include_transitive
                                     /\ target \in get_all_transitive_dependencies(comp_name, g, {})
                             THEN <<dependent_record(comp_name, g, types, target, "Transitive")>>
                             ELSE <<>>
                 IN  here \o scan(i + 1)
    IN  scan(1)

\* lines 333-346, 355-368: the record of one dependency; direction and
\* access_type are those of the one entry of its access_details
dependency_record(target, dep_name, g, types, relationship) ==
    [component_name |-> dep_name,
     component_type |-> TypeOf(types, dep_name),
     dependency_count |-> Len(Deps(g, dep_name)),
     target |-> dep_name,
     relationship |-> relationship,
     direction |-> <<target, dep_name>>,
     access_type |-> "Required By Target",
     is_target |-> FALSE]

find_dependencies_AllTransitive(target, g, types, include_transitive, iter) ==
    IF target \notin DOMAIN g THEN <<>>
    ELSE LET direct == [i \in 1..Len(g[target]) |->
                            dependency_record(target, g[target][i], g, types, "Direct")]
             RECURSIVE rest(_)
             rest(i) ==
                 IF i > Len(iter) THEN <<>>
                 ELSE <<dependency_record(target, iter[i], g, types, "Transitive")>> \o rest(i + 1)
         IN  IF include_transitive THEN direct \o rest(1) ELSE direct

\* lines 325-370; iter is the order in which the loop of line 353 walks the
\* set all_transitive (a Python set has no defined iteration order)
find_dependencies(target, g, types, include_transitive, iter) ==
    IF target \notin DOMAIN g THEN <<>>
    ELSE LET direct == [i \in 1..Len(g[target]) |->
                            dependency_record(target, g[target][i], g, types, "Direct")]
             direct_deps == Range(g[target])
             RECURSIVE rest(_)
             rest(i) ==
                 IF i > Len(iter) THEN <<>>
                 ELSE (IF iter[i] \notin direct_deps
                       THEN <<dependency_record(target, iter[i], g, types, "Transitive")>>
                       ELSE <<>>) \o rest(i + 1)
         IN  IF include_transitive THEN direct \o rest(1) ELSE direct

\* lines 399-405: the record of one chain
chain_record(new_chain, current_chain, types) ==
    [chain |-> new_chain,
     depth |-> Len(new_chain) - 1,
     source |-> current_chain[1],
     chain_types |-> [i \in 1..Len(new_chain) |-> TypeOf(types, new_chain[i])]]

\* lines 388-410; the first call passes current_chain = [start] (line 390)
RECURSIVE get_dependency_chains(_, _, _, _, _)
get_dependency_chains_MaximalOnly(start, g, types, max_depth, current_chain) ==
    IF Len(current_chain) >= max_depth \/ start \notin DOMAIN g THEN <<>>
    ELSE LET RECURSIVE loop(_)
             loop(i) ==
                 IF i > Len(g[start]) THEN <<>>
                 ELSE LET dep == g[start][i]
                          new_chain == Append(current_chain, dep)
                          longer == get_dependency_chains(dep, g, types, max_depth, new_chain)
                      IN  (IF longer = <<>>
                           THEN <<chain_record(new_chain, current_chain, types)>>
                           ELSE longer)
                          \o loop(i + 1)
         IN  loop(1)

get_dependency_chains(start, g, types, max_depth, current_chain) ==
    IF Len(current_chain) >= max_depth \/ start \notin DOMAIN g THEN <<>>
    ELSE LET RECURSIVE loop(_)
             loop(i) ==
                 IF i > Len(g[start]) THEN <<>>
                 ELSE LET dep == g[start][i]
                          new_chain == Append(current_chain, dep)
                      IN  <<chain_record(new_chain, current_chain, types)>>
                          \o get_dependency_chains(dep, g, types, max_depth, new_chain)
                          \o loop(i + 1)
         IN  loop(1)

----------------------------------------------------------------------------
(* SpecReach: a graph is drawn, then the reachability queries are answered *)
(* on it, each in one step.                                                *)

\* no invocation of get_all_transitive_dependencies is under way
NoInvocation ==
    /\ stack = <<>>
    /\ retval = {}
    /\ expanded = [n \in Names |-> 0]

\* no ranking request is under way
NoRanking ==
    /\ weights_config = [priority_types |-> <<>>, medium_types |-> <<>>,
                         scoring_multipliers |-> <<>>]
    /\ missing_data = <<>>
    /\ missing_by_parent = <<>>
    /\ transaction_mapping = {}
    /\ req = [target_type |-> "", entry_point_types |-> {}]
    /\ scan_pos = 0
    /\ entry_point_candidates = <<>>
    /\ ranking = [ranked_entry_points |-> <<>>]

Graphs == UNION {GraphsOver(Range(Prefix(n)), MaxEdges) : n \in 0..Len(NameOrder)}

Perms(S) == {s \in [1..Cardinality(S) -> S] : Range(s) = S}

InitReach ==
    /\ graph \in Graphs
    /\ order = Prefix(Cardinality(DOMAIN graph))
    /\ ctype = [n \in DOMAIN graph |-> TypeOfName[n]]
    /\ res = [op |-> "none"]
    /\ pc = "reach"
    /\ NoInvocation
    /\ NoRanking

QueryClosure(start) ==
    /\ res' = [op |-> "closure", start |-> start,
               out |-> get_all_transitive_dependencies(start, graph, {})]
    /\ UNCHANGED <<graph, order, ctype, pc, closureVars, rankVars>>

QueryDependents(target, include_transitive) ==
    /\ res' = [op |-> "dependents", target |-> target,
               include_transitive |-> include_transitive,
               out |-> find_dependents(target, graph, order, ctype, include_transitive)]
    /\ UNCHANGED <<graph, order, ctype, pc, closureVars, rankVars>>

QueryDependencies(target, include_transitive) ==
    /\ \E iter \in Perms(get_all_transitive_dependencies(target, graph, {})) :
          res' = [op |-> "dependencies", target |-> target,
                  include_transitive |-> include_transitive,
                  out |-> find_dependencies(target, graph, ctype, include_transitive, iter)]
    /\ UNCHANGED <<graph, order, ctype, pc, closureVars, rankVars>>

QueryChains(start, max_depth) ==
    /\ res' = [op |-> "chains", start |-> start, max_depth |-> max_depth,
               out |-> get_dependency_chains(start, graph, ctype, max_depth, <<start>>)]
    /\ UNCHANGED <<graph, order, ctype, pc, closureVars, rankVars>>

NextReach ==
    \/ \E start \in Names : QueryClosure(start)
    \/ \E target \in Names, include_transitive \in BOOLEAN :
          QueryDependents(target, include_transitive)
    \/ \E target \in Names, include_transitive \in BOOLEAN :
          QueryDependencies(target, include_transitive)
    \/ \E start \in Names, max_depth \in 0..MaxDepth : QueryChains(start, max_depth)

SpecReach == InitReach /\ [][NextReach]_vars

----------------------------------------------------------------------------
(* SpecClosure: one invocation of get_all_transitive_dependencies, call by *)
(* call.  A frame is one activation: its start node, its own visited set,  *)
(* the index i of the dependency the loop of line 382 is at (0 before the  *)
(* test of line 376) and its all_deps.                                     *)

Frame(node, visited) == [node |-> node, visited |-> visited, i |-> 0, all_deps |-> {}]

Top == stack[Len(stack)]

SetTop(stk, f) == [stk EXCEPT ![Len(stk)] = f]

Pop(stk) == SubSeq(stk, 1, Len(stk) - 1)

\* line 384 drops what the callee returned
Returned_UpdateLost(stk, value) ==
    LET caller == stk[Len(stk) - 1]
    IN  SetTop(Pop(stk), [caller EXCEPT !.i = caller.i + 1])

\* line 384: the caller's all_deps.update(<returned set>), then the loop goes on
Returned(stk, value) ==
    LET caller == stk[Len(stk) - 1]
    IN  SetTop(Pop(stk), [caller EXCEPT !.all_deps = caller.all_deps \cup value,
                                        !.i = caller.i + 1])

\* a return statement: to the calling activation, or out of the outermost call
Return(value) ==
    IF Len(stack) = 1
    THEN /\ stack' = <<>>
         /\ retval' = value
         /\ pc' = "done"
    ELSE /\ stack' = Returned(stack, value)
         /\ UNCHANGED <<retval, pc>>

InitClosure ==
    /\ graph \in Graphs
    /\ order = Prefix(Cardinality(DOMAIN graph))
    /\ ctype = [n \in DOMAIN graph |-> TypeOfName[n]]
    /\ res = [op |-> "none"]
    /\ pc = "idle"
    /\ NoInvocation
    /\ NoRanking

\* lines 372-374: the outermost call, visited = set()
Call(start) ==
    /\ pc = "idle"
    /\ pc' = "running"
    /\ res' = [op |-> "call", start |-> start]
    /\ stack' = <<Frame(start, {})>>
    /\ UNCHANGED <<graph, order, ctype, retval, expanded, rankVars>>

\* lines 376-377
ReturnEmpty ==
    /\ pc = "running"
    /\ Top.i = 0
    /\ Top.node \in Top.visited \/ Top.node \notin DOMAIN graph
    /\ Return({})
    /\ UNCHANGED <<graph, order, ctype, res, expanded, rankVars>>

\* lines 379-380
Visit ==
    /\ pc = "running"
    /\ Top.i = 0
    /\ ~(Top.node \in Top.visited \/ Top.node \notin DOMAIN graph)
    /\ stack' = SetTop(stack, [Top EXCEPT !.visited = Top.visited \cup {Top.node}, !.i = 1])
    /\ expanded' = [expanded EXCEPT ![Top.node] = expanded[Top.node] + 1]
    /\ UNCHANGED <<graph, order, ctype, res, pc, retval, rankVars>>

\* lines 382-384: all_deps.add(dep), then the recursive call on a copy of visited
Descend ==
    /\ pc = "running"
    /\ Top.i >= 1
    /\ Top.i <= Len(graph[Top.node])
    /\ LET dep == graph[Top.node][Top.i]
       IN  stack' = Append(SetTop(stack, [Top EXCEPT !.all_deps = Top.all_deps \cup {dep}]),
                           Frame(dep, Top.visited))
    /\ UNCHANGED <<graph, order, ctype, res, pc, retval, expanded, rankVars>>

\* line 386
ReturnAllDeps ==
    /\ pc = "running"
    /\ Top.i >= 1
    /\ Top.i > Len(graph[Top.node])
    /\ Return(Top.all_deps)
    /\ UNCHANGED <<graph, order, ctype, res, expanded, rankVars>>

NextClosure ==
    \/ \E start \in Names : Call(start)
    \/ ReturnEmpty
    \/ Visit
    \/ Descend
    \/ ReturnAllDeps

SpecClosure == InitClosure /\ [][NextClosure]_vars

\* the interpreter runs the invocation on: no step that can be taken is
\* put off for ever
SpecClosureFair == SpecClosure /\ WF_vars(NextClosure)

----------------------------------------------------------------------------
(* minimal-dependency-finder/lambda_function.py.  Its own                  *)
(* get_all_transitive_dependencies (lines 633-648) is, statement by        *)
(* statement, the function of the same name modelled above.                *)

\* lines 27-57, weights in tenths
default_config ==
    [priority_types |->
        [t \in {"JCL", "COB", "COBOL", "CPY", "BMS", "TRANSACTION", "CICS_FILE",
                "CSDCOMMAND", "COMMAREA", "MAPSET"} |-> 10],
     medium_types |->
        [t \in {"Missing Database Object", "Missing Dataset", "DATASET",
                "VSAM KSDS DATASET", "PS", "txt", "CTL", "PROC"} |-> 7],
     scoring_multipliers |->
        [priority_weight |-> 10, medium_weight |-> 7, missing_priority_penalty |-> 20,
         missing_medium_penalty |-> 14, cics_complexity_factor |-> 5]]

\* lines 301-312
ignored_types ==
    {"FILE_DEFINITION", "Missing Source File", "System", "Symbolic parameter", "Unknown",
     "md", "drawio", "zip", "INIT", "LISTCAT"}

get_component_priority_weight_local_MediumFirst(component_type, config) ==
    IF component_type \in DOMAIN config.medium_types
    THEN config.medium_types[component_type]
    ELSE IF component_type \in DOMAIN config.priority_types
    THEN config.priority_types[component_type]
    ELSE IF component_type \in ignored_types
    THEN 0
    ELSE 3

\* lines 286-323, the inline implementation
get_component_priority_weight_local(component_type, config) ==
    IF component_type \in DOMAIN config.priority_types
    THEN config.priority_types[component_type]
    ELSE IF component_type \in DOMAIN config.medium_types
    THEN config.medium_types[component_type]
    ELSE IF component_type \in ignored_types
    THEN 0
    ELSE 3

\* lines 452-463
is_entry_point_accurate(component_type, entry_point_types) ==
    \/ component_type \in entry_point_types
    \/ /\ \E cics_type \in {"CICS", "TRANSACTION", "BMS"} : cics_type \in entry_point_types
       /\ component_type \in {"TRANSACTION", "BMS", "CICS_FILE"}

\* lines 465-475
categorize_entry_point_accurate(component_type) ==
    IF component_type \in {"JCL", "PROC"} THEN "Batch"
    ELSE IF component_type \in {"TRANSACTION", "BMS", "CICS_FILE", "CSDCOMMAND"} THEN "Online"
    ELSE "Unknown"

\* lines 592-598
target_component_types(target_type) ==
    IF target_type = "application_program" THEN {"COB", "COBOL"}
    ELSE IF target_type = "database_reference"
    THEN {"[SQL]TABLE", "[SQL]CURSOR", "Missing Database Object"}
    ELSE IF target_type = "vsam_reference" THEN {"VSAM KSDS DATASET", "CICS_FILE", "DATASET"}
    ELSE {}

\* lines 585-631; iter is the order in which the set all_deps is walked
get_target_execution_DirectOnly(entry_point, g, types, target_type, iter) ==
    LET target_types == target_component_types(target_type)
        direct_deps == Deps(g, entry_point)
        directly == SelectSeq([i \in 1..Len(direct_deps) |->
                                  [component |-> direct_deps[i],
                                   type |-> TypeOf(types, direct_deps[i]),
                                   access_level |-> "Direct"]],
                              LAMBDA e : e.component \in DOMAIN types
                                         /\ e.type \in target_types)
    IN  [executes_target |-> Len(directly) > 0,
         executed_components |-> [i \in 1..Len(directly) |-> directly[i].component],
         execution_details |-> directly]

get_target_execution(entry_point, g, types, target_type, iter) ==
    LET target_types == target_component_types(target_type)
        direct_deps == Deps(g, entry_point)
        RECURSIVE direct(_)
        direct(i) ==
            IF i > Len(direct_deps) THEN <<>>
            ELSE LET dep_name == direct_deps[i]
                 IN  (IF dep_name \in DOMAIN types /\ types[dep_name] \in target_types
                      THEN <<[component |-> dep_name, type |-> types[dep_name],
                              access_level |-> "Direct"]>>
                      ELSE <<>>) \o direct(i + 1)
        directly == direct(1)
        executed_direct == {directly[i].component : i \in 1..Len(directly)}
        RECURSIVE transitive(_)
        transitive(i) ==
            IF i > Len(iter) THEN <<>>
            ELSE LET dep_name == iter[i]
                 IN  (IF /\ dep_name \in DOMAIN types
                         /\ dep_name \notin executed_direct
                         /\ types[dep_name] \in target_types
                      THEN <<[component |-> dep_name, type |-> types[dep_name],
                              access_level |-> "Transitive"]>>
                      ELSE <<>>) \o transitive(i + 1)
        execution_details == directly \o transitive(1)
    IN  [executes_target |-> Len(execution_details) > 0,
         executed_components |->
            [i \in 1..Len(execution_details) |-> execution_details[i].component],
         execution_details |-> execution_details]

\* lines 239-263: no model name holds the substring MENU or NAV
analyze_functionality_pattern(all_deps, types) ==
    LET known == all_deps \cap DOMAIN types
        data == {d \in known : types[d] \in {"CICS_FILE", "DATASET", "VSAM KSDS DATASET", "PS"}}
        screen == {d \in known \ data : types[d] \in {"BMS", "MAPSET"}}
        program == {d \in known \ (data \cup screen) : types[d] \in {"COB", "COBOL"}}
    IN  [data_heavy |-> Cardinality(data), screen_heavy |-> Cardinality(screen),
         program_heavy |-> Cardinality(program), navigation |-> 0]

\* lines 265-284: max() returns the first key, in dict order, that holds the maximum
classify_functionality(patterns) ==
    LET keys == <<"data_heavy", "screen_heavy", "program_heavy", "navigation">>
        total == patterns.data_heavy + patterns.screen_heavy + patterns.program_heavy
                    + patterns.navigation
        best == CHOOSE i \in 1..Len(keys) :
                    /\ \A j \in 1..Len(keys) : patterns[keys[j]] <= patterns[keys[i]]
                    /\ \A j \in 1..(i - 1) : patterns[keys[j]] < patterns[keys[i]]
        label == [data_heavy |-> "Data Processing", screen_heavy |-> "User Interface",
                  program_heavy |-> "Business Logic", navigation |-> "Navigation/Menu"]
    IN  IF total = 0 THEN [primary_type |-> "Simple", dominant_pattern |-> "simple"]
        ELSE [primary_type |-> label[keys[best]], dominant_pattern |-> keys[best]]

CountWeight(records, weight) == Len(SelectSeq(records, LAMBDA m : m.priority_weight = weight))

\* lines 538-545: missing_components is the list object missing_by_parent[comp_name]
\* when that key exists (dict.get returns the stored list, not a copy), so
\* extend() grows the stored list; extending it with itself doubles it
gather_missing_components(comp_name, g, mbp, iter) ==
    LET RECURSIVE gather(_, _)
        gather(i, list) ==
            IF i > Len(iter) THEN list
            ELSE gather(i + 1,
                        IF iter[i] \in DOMAIN mbp
                        THEN list \o (IF iter[i] = comp_name THEN list ELSE mbp[iter[i]])
                        ELSE list)
        first == IF comp_name \in DOMAIN mbp THEN mbp[comp_name] ELSE <<>>
    IN  IF comp_name \in DOMAIN g THEN gather(1, first) ELSE first

weighted_score_CicsFactorUnscaled(priority, medium, priority_missing, medium_missing, cics_complexity_factor, multipliers) ==
    priority * multipliers.priority_weight
        + medium * multipliers.medium_weight
        + priority_missing * multipliers.missing_priority_penalty
        + medium_missing * multipliers.missing_medium_penalty
        + cics_complexity_factor * 10

\* lines 558-564
weighted_score(priority, medium, priority_missing, medium_missing, cics_complexity_factor, multipliers) ==
    priority * multipliers.priority_weight
        + medium * multipliers.medium_weight
        + priority_missing * multipliers.missing_priority_penalty
        + medium_missing * multipliers.missing_medium_penalty
        + cics_complexity_factor * multipliers.cics_complexity_factor

\* lines 496-583; the record returned, and with it the dict missing_by_parent
\* as the call leaves it
calculate_prioritized_scores_cics_enhanced(comp_name, g, types, mbp, txn, config, iter) ==
    LET all_deps == get_all_transitive_dependencies(comp_name, g, {})
        multipliers == config.scoring_multipliers
        priority_weight == multipliers.priority_weight
        medium_weight == multipliers.medium_weight
        weight(d) == get_component_priority_weight_local(types[d], config)
        priority_deps == {d \in all_deps \cap DOMAIN types : weight(d) = priority_weight}
        medium_deps == {d \in (all_deps \cap DOMAIN types) \ priority_deps :
                            weight(d) = medium_weight}
        ignored_deps == all_deps \ (priority_deps \cup medium_deps)
        missing_components == gather_missing_components(comp_name, g, mbp, iter)
        priority_missing == CountWeight(missing_components, priority_weight)
        medium_missing == CountWeight(missing_components, medium_weight)
        cics_complexity_factor ==
            IF comp_name \in txn THEN 5
            ELSE IF comp_name \in DOMAIN types
                    /\ types[comp_name] \in {"TRANSACTION", "BMS", "CICS_FILE"}
            THEN 3
            ELSE 0
    IN  [total_dependencies |-> Cardinality(all_deps),
         priority_dependencies |-> Cardinality(priority_deps),
         medium_dependencies |-> Cardinality(medium_deps),
         ignored_dependencies |-> Cardinality(ignored_deps),
         missing_priority_count |-> priority_missing,
         missing_medium_count |-> medium_missing,
         weighted_complexity_score |->
            weighted_score(Cardinality(priority_deps), Cardinality(medium_deps),
                           priority_missing, medium_missing, cics_complexity_factor,
                           multipliers),
         cics_complexity_factor |-> cics_complexity_factor,
         functionality_pattern |->
            classify_functionality(analyze_functionality_pattern(all_deps, types)),
         missing_by_parent |->
            IF comp_name \in DOMAIN mbp
            THEN [mbp EXCEPT ![comp_name] = missing_components]
            ELSE mbp]

\* lines 353-364: one list per parent, a record appended for every parent of a row
build_missing_by_parent(rows, config) ==
    LET add(mbp, parent, rec) ==
            IF parent = "" THEN mbp
            ELSE IF parent \in DOMAIN mbp THEN [mbp EXCEPT ![parent] = Append(@, rec)]
            ELSE (parent :> <<rec>>) @@ mbp
        RECURSIVE parents(_, _, _)
        parents(mbp, r, j) ==
            IF j > Len(rows[r].Parents) THEN mbp
            ELSE parents(add(mbp, rows[r].Parents[j],
                             [name |-> rows[r].Name, type |-> rows[r].Type,
                              priority_weight |->
                                 get_component_priority_weight_local(rows[r].Type, config)]),
                         r, j + 1)
        RECURSIVE table(_, _)
        table(mbp, r) == IF r > Len(rows) THEN mbp ELSE table(parents(mbp, r, 1), r + 1)
    IN  table([x \in {} |-> <<>>], 1)

sort_Unstable(candidates) ==
    LET insert(sorted, x) ==
            LET before == SelectSeq(sorted, LAMBDA c :
                              c.weighted_complexity_score < x.weighted_complexity_score)
            IN  before \o <<x>> \o SubSeq(sorted, Len(before) + 1, Len(sorted))
        RECURSIVE upto(_)
        upto(n) == IF n = 0 THEN <<>> ELSE insert(upto(n - 1), candidates[n])
    IN  upto(Len(candidates))

\* line 405: list.sort(key=...) is stable and ascending
sort(candidates) ==
    LET insert(sorted, x) ==
            LET before == SelectSeq(sorted, LAMBDA c :
                              c.weighted_complexity_score <= x.weighted_complexity_score)
            IN  before \o <<x>> \o SubSeq(sorted, Len(before) + 1, Len(sorted))
        RECURSIVE upto(_)
        upto(n) == IF n = 0 THEN <<>> ELSE insert(upto(n - 1), candidates[n])
    IN  upto(Len(candidates))

\* line 408: candidates[:max_results]
slice(candidates, max_results) ==
    IF max_results >= 0
    THEN SubSeq(candidates, 1, IF max_results < Len(candidates) THEN max_results
                               ELSE Len(candidates))
    ELSE SubSeq(candidates, 1, IF Len(candidates) + max_results > 0
                               THEN Len(candidates) + max_results ELSE 0)

\* lines 650-685; candidates is the sorted list
generate_cics_enhanced_analysis_summary(candidates, target_type) ==
    IF candidates = <<>>
    THEN [message |-> "No entry points found that execute the target functionality",
          target_type |-> target_type, recommendations |-> <<>>]
    ELSE [total_candidates |-> Len(candidates),
          batch_candidates |->
             Len(SelectSeq(candidates, LAMBDA c : c.entry_point_category = "Batch")),
          online_candidates |->
             Len(SelectSeq(candidates, LAMBDA c : c.entry_point_category = "Online")),
          best_entry_point |-> candidates[1].component_name]

----------------------------------------------------------------------------
(* SpecRank: find_minimal_dependency_entry_points_cics_enhanced.  The loop *)
(* of line 369 takes one component per step; the last step sorts, cuts and *)
(* ranks.                                                                  *)

\* total number of parent references in the missing-component table
MaxMissing == 2

\* largest max_results of a request
MaxResults == 3

CompTypes == {"JCL", "COB", "DATASET", "CICS_FILE"}

\* type of a missing record: a priority type and a medium type
MissingTypes == {"COB", "Missing Dataset"}

SeqOfSet(S) == SelectSeq(NameOrder, LAMBDA n : n \in S)

Discovery(name) == CHOOSE i \in 1..Len(NameOrder) : NameOrder[i] = name

\* graphs whose adjacency lists name each dependency once
RankGraphsOver(dom) ==
    {[n \in dom |-> SeqOfSet({m \in Names : <<n, m>> \in E})] :
        E \in {F \in SUBSET (dom \X Names) : Cardinality(F) <= MaxEdges}}

RankGraphs == UNION {RankGraphsOver(Range(Prefix(n))) : n \in 0..Len(NameOrder)}

\* two batch jobs A and B over a program C, possibly calling each other or
\* sharing C
SharedGraphs ==
    {g \in RankGraphsOver(Names) :
        /\ g["C"] = <<>>
        /\ "C" \in Range(g["A"]) \cup Range(g["B"])
        /\ Len(g["A"]) > 0
        /\ \A n \in Names : n \notin Range(g[n])}

BatchTypes == [n \in Names |-> IF n = "C" THEN "COB" ELSE "JCL"]

\* the Parents cell of a row: the parents split off the comma list, each
\* parent named once; a row is added to each parent's list whatever the order
\* of the cell, so the cells are listed in name order only
ParentCells(n) ==
    {ps \in SeqsOver(Names, n) \ {<<>>} :
        \A i \in 1..(Len(ps) - 1) : Discovery(ps[i]) < Discovery(ps[i + 1])}

RECURSIVE MissingTables(_, _)
MissingTables(budget, row) ==
    {<<>>} \cup
    UNION {{<<[Name |-> row, Type |-> t, Parents |-> ps]>> \o rest :
                rest \in MissingTables(budget - Len(ps), row + 1)} :
           t \in MissingTypes, ps \in ParentCells(budget)}

InitRank ==
    /\ weights_config = default_config
    /\ \/ /\ graph \in RankGraphs
          /\ ctype \in [DOMAIN graph -> CompTypes]
          /\ missing_data = <<>>
          /\ transaction_mapping = {}
          /\ req = [target_type |-> "vsam_reference",
                    entry_point_types |-> {"JCL", "TRANSACTION", "BMS"}]
       \/ /\ graph \in SharedGraphs
          /\ ctype = BatchTypes
          /\ missing_data \in MissingTables(MaxMissing, 1)
          /\ transaction_mapping \in {{}, {"A"}}
          /\ req = [target_type |-> "application_program",
                    entry_point_types |-> {"JCL", "TRANSACTION", "BMS"}]
       \/ /\ graph \in SharedGraphs
          /\ ctype = BatchTypes
          /\ missing_data = <<>>
          /\ transaction_mapping = {}
          /\ req = [target_type |-> "unknown_reference",
                    entry_point_types |-> {"JCL", "TRANSACTION", "BMS"}]
    /\ order = Prefix(Cardinality(DOMAIN graph))
    /\ missing_by_parent = build_missing_by_parent(missing_data, weights_config)
    /\ scan_pos = 1
    /\ entry_point_candidates = <<>>
    /\ ranking = [ranked_entry_points |-> <<>>]
    /\ res = [op |-> "none"]
    /\ pc = "scan"
    /\ NoInvocation

\* lines 383-402
candidate(comp_name, types, scores, target_execution) ==
    [component_name |-> comp_name,
     component_type |-> types[comp_name],
     entry_point_category |-> categorize_entry_point_accurate(types[comp_name]),
     total_dependencies |-> scores.total_dependencies,
     priority_dependencies |-> scores.priority_dependencies,
     medium_dependencies |-> scores.medium_dependencies,
     ignored_dependencies |-> scores.ignored_dependencies,
     missing_priority_count |-> scores.missing_priority_count,
     missing_medium_count |-> scores.missing_medium_count,
     weighted_complexity_score |-> scores.weighted_complexity_score,
     cics_complexity_factor |-> scores.cics_complexity_factor,
     executes |-> target_execution.executed_components,
     execution_details |-> target_execution.execution_details,
     functionality_pattern |-> scores.functionality_pattern]

\* lines 371-372
SkipNoEntryPoint ==
    /\ pc = "scan"
    /\ scan_pos <= Len(order)
    /\ ~is_entry_point_accurate(ctype[order[scan_pos]], req.entry_point_types)
    /\ scan_pos' = scan_pos + 1
    /\ UNCHANGED <<graph, order, ctype, res, pc, closureVars, weights_config, missing_data,
                   missing_by_parent, transaction_mapping, req, entry_point_candidates,
                   ranking>>

\* lines 375-377, the test failing
SkipNotExecuting ==
    /\ pc = "scan"
    /\ scan_pos <= Len(order)
    /\ is_entry_point_accurate(ctype[order[scan_pos]], req.entry_point_types)
    /\ \E iter \in Perms(get_all_transitive_dependencies(order[scan_pos], graph, {})) :
          ~get_target_execution(order[scan_pos], graph, ctype, req.target_type,
                                iter).executes_target
    /\ scan_pos' = scan_pos + 1
    /\ UNCHANGED <<graph, order, ctype, res, pc, closureVars, weights_config, missing_data,
                   missing_by_parent, transaction_mapping, req, entry_point_candidates,
                   ranking>>

\* lines 375-402
ScoreCandidate ==
    /\ pc = "scan"
    /\ scan_pos <= Len(order)
    /\ is_entry_point_accurate(ctype[order[scan_pos]], req.entry_point_types)
    /\ \E iter \in Perms(get_all_transitive_dependencies(order[scan_pos], graph, {})) :
          LET comp_name == order[scan_pos]
              target_execution ==
                  get_target_execution(comp_name, graph, ctype, req.target_type, iter)
              scores ==
                  calculate_prioritized_scores_cics_enhanced(
                      comp_name, graph, ctype, missing_by_parent, transaction_mapping,
                      weights_config, iter)
          IN  /\ target_execution.executes_target
              /\ entry_point_candidates' =
                    Append(entry_point_candidates,
                           candidate(comp_name, ctype, scores, target_execution))
              /\ missing_by_parent' = scores.missing_by_parent
    /\ scan_pos' = scan_pos + 1
    /\ UNCHANGED <<graph, order, ctype, res, pc, closureVars, weights_config, missing_data,
                   transaction_mapping, req, ranking>>

\* lines 404-450
Rank(max_results) ==
    /\ pc = "scan"
    /\ scan_pos > Len(order)
    /\ LET sorted == sort(entry_point_candidates)
           cut == slice(sorted, max_results)
           ranked_results == [i \in 1..Len(cut) |-> [rank |-> i] @@ cut[i]]
       IN  /\ entry_point_candidates' =
                 [i \in 1..Len(sorted) |->
                     IF i <= Len(cut) THEN ranked_results[i] ELSE sorted[i]]
           /\ ranking' =
                 [ranked_entry_points |-> ranked_results,
                  analysis_summary |->
                     generate_cics_enhanced_analysis_summary(sorted, req.target_type),
                  search_criteria |->
                     [target_type |-> req.target_type,
                      entry_point_types |-> req.entry_point_types,
                      total_candidates_found |-> Len(sorted),
                      results_returned |-> Len(ranked_results)]]
    /\ res' = [op |-> "rank", args |-> [max_results |-> max_results]]
    /\ pc' = "done"
    /\ UNCHANGED <<graph, order, ctype, closureVars, weights_config, missing_data,
                   missing_by_parent, transaction_mapping, req, scan_pos>>

NextRank ==
    \/ SkipNoEntryPoint
    \/ SkipNotExecuting
    \/ ScoreCandidate
    \/ \E max_results \in 0..MaxResults :
          \* every limit above the number of candidates returns the whole list:
          \* one such limit stands for them all
          /\ max_results <= Len(entry_point_candidates) + 1
          /\ Rank(max_results)

SpecRank == InitRank /\ [][NextRank]_vars

----------------------------------------------------------------------------
(* Reachability stated on the edge relation, independently of the code. *)

Succ(g, n) == Range(Deps(g, n))

RECURSIVE ReachFrom(_, _)
ReachFrom(g, S) ==
    LET T == S \cup UNION {Succ(g, n) : n \in S}
    IN  IF T = S THEN S ELSE ReachFrom(g, T)

\* the names reachable from x in one or more edges
Reachable(g, x) == ReachFrom(g, Succ(g, x))

Acyclic(g) == \A n \in DOMAIN g : n \notin Reachable(g, n)

IsEdgePath(g, p) ==
    /\ Len(p) >= 2
    /\ \A i \in 1..(Len(p) - 1) : p[i + 1] \in Succ(g, p[i])

NoRepeat(p) == \A i, j \in 1..Len(p) : i # j => p[i] # p[j]

\* the edge paths that start at s and have between 1 and d edges
EdgePaths(g, s, d) == {p \in SeqsOver(Names, d + 1) : IsEdgePath(g, p) /\ p[1] = s}

Named(out, relationship) ==
    {out[i].component_name : i \in {j \in 1..Len(out) : out[j].relationship = relationship}}

ChainsOf(out) == {out[i].chain : i \in 1..Len(out)}

----------------------------------------------------------------------------
(* Claims on the reachability queries (SpecReach). *)

\* C1: on an acyclic graph get_all_transitive_dependencies(X) is the union of
\* X's direct dependencies and the closures of each of them, which is exactly
\* the set of names reachable from X in one or more edges (dangling names
\* included), and X is not in it.
C1_ClosureOfAcyclic ==
    (res.op = "closure" /\ Acyclic(graph)) =>
        LET X == res.start
            direct == Succ(graph, X)
        IN  /\ res.out = direct \cup
                    UNION {get_all_transitive_dependencies(d, graph, {}) : d \in direct}
            /\ res.out = Reachable(graph, X)
            /\ X \notin res.out

\* an acyclic chain through a component to a dangling name
C1_Witness ==
    /\ res.op = "closure"
    /\ Acyclic(graph)
    /\ \E d \in res.out :
          /\ d \notin DOMAIN graph
          /\ d \notin Succ(graph, res.start)

\* C3 as stated: the Direct dependents of X are {Y : X in adjacency(Y)}
\* exactly, and X is never its own dependent.
C3_DirectDependentsAsStated ==
    res.op = "dependents" =>
        /\ Named(res.out, "Direct") = {Y \in DOMAIN graph : res.target \in Succ(graph, Y)}
        /\ res.target \notin Named(res.out, "Direct") \cup Named(res.out, "Transitive")

\* C3 as amended: the Direct dependents of X are the components other than X
\* whose adjacency list contains X, and X is never its own dependent.
C3_DirectDependents ==
    res.op = "dependents" =>
        /\ Named(res.out, "Direct") =
              {Y \in DOMAIN graph \ {res.target} : res.target \in Succ(graph, Y)}
        /\ res.target \notin Named(res.out, "Direct") \cup Named(res.out, "Transitive")

\* the target lists itself and has another direct dependent
C3_Witness ==
    /\ res.op = "dependents"
    /\ res.target \in Succ(graph, res.target)
    /\ Named(res.out, "Direct") # {}

\* C4: a component Y other than X that does not list X is returned, tagged
\* Transitive, iff include_transitive is set and X is reachable from Y; no
\* component yields two records; without include_transitive every record is
\* Direct.
C4_TransitiveDependents ==
    res.op = "dependents" =>
        /\ \A Y \in DOMAIN graph \ {res.target} :
              res.target \notin Succ(graph, Y) =>
                  (Y \in Named(res.out, "Transitive")
                      <=> (res.include_transitive /\ res.target \in Reachable(graph, Y)))
        /\ \A i, j \in 1..Len(res.out) :
              i # j => res.out[i].component_name # res.out[j].component_name
        /\ ~res.include_transitive =>
              \A i \in 1..Len(res.out) : res.out[i].relationship = "Direct"

\* a query that returns a Direct and a Transitive dependent
C4_Witness ==
    /\ res.op = "dependents"
    /\ res.include_transitive
    /\ Named(res.out, "Transitive") # {}
    /\ Named(res.out, "Direct") # {}

\* C5: for a target X of the graph, find_dependencies(X, TRUE) returns Direct
\* names and Transitive names that are disjoint, whose union is the closure of
\* X, the Direct names being the adjacency list of X.
C5_DependenciesSplit ==
    (res.op = "dependencies" /\ res.include_transitive /\ res.target \in DOMAIN graph) =>
        /\ Named(res.out, "Direct") \cap Named(res.out, "Transitive") = {}
        /\ Named(res.out, "Direct") \cup Named(res.out, "Transitive")
              = Reachable(graph, res.target)
        /\ Named(res.out, "Direct") = Succ(graph, res.target)

\* a direct dependency that is reached over a longer path as well, and a
\* dependency that is transitive only
C5_Witness ==
    /\ res.op = "dependencies"
    /\ res.include_transitive
    /\ res.target \in DOMAIN graph
    /\ Named(res.out, "Transitive") # {}
    /\ \E d \in Succ(graph, res.target) :
          \E e \in Succ(graph, res.target) \ {d} : d \in Reachable(graph, e)

\* C6 as stated: every path that starts at start and has between 1 and
\* max_depth edges is emitted (here asked only of the paths that repeat no
\* node), and no emitted chain has more than max_depth edges.
C6_EveryPathUpToMaxDepthEdges ==
    res.op = "chains" =>
        /\ \A p \in EdgePaths(graph, res.start, res.max_depth) :
              NoRepeat(p) => p \in ChainsOf(res.out)
        /\ \A i \in 1..Len(res.out) : res.out[i].depth <= res.max_depth

\* C7 as stated: no emitted chain holds the same node twice.
C7_NoNodeTwiceInAChain ==
    res.op = "chains" => \A p \in ChainsOf(res.out) : NoRepeat(p)

----------------------------------------------------------------------------
(* Claims on the invocation of get_all_transitive_dependencies, taken call *)
(* by call (SpecClosureFair).                                              *)

\* C2: on every graph, cycles and self-loops included, the invocation
\* terminates and returns the set of the names reachable from start (a set:
\* each name once); start is in it only if a cycle leads back to start.
C2_TerminatesWithReachableSet ==
    /\ <>(pc = "done")
    /\ [](pc = "done" =>
            /\ retval = Reachable(graph, res.start)
            /\ retval = get_all_transitive_dependencies(res.start, graph, {})
            /\ res.start \in retval =>
                  \E p \in EdgePaths(graph, res.start, Cardinality(Names)) :
                      p[Len(p)] = res.start)

\* an invocation on a cycle has returned start and another name
C2_Witness ==
    /\ pc = "done"
    /\ res.start \in retval
    /\ Cardinality(retval) >= 2
    /\ \E n \in DOMAIN graph : n \in Succ(graph, n)

----------------------------------------------------------------------------
(* Claims on the entry-point ranking (SpecRank). *)

Score(c) == c.weighted_complexity_score

\* position at which the loop over components.items() met the component
Discovered(name) == CHOOSE i \in 1..Len(order) : order[i] = name

\* a ranks before b: lower score, or the same score and discovered earlier
Before(a, b) ==
    \/ Score(a) < Score(b)
    \/ /\ Score(a) = Score(b)
       /\ Discovered(a.component_name) < Discovered(b.component_name)

\* C9: the ranked list is in ascending score order, candidates of equal score
\* in discovery order and candidates of unequal score in strictly increasing
\* order; it is the first max_results candidates of that order, each a
\* candidate that was found, and the ranks are 1..n in list order.
C9_RankedStableAscending ==
    [][(pc = "scan" /\ pc' = "done") =>
        LET found == entry_point_candidates
            ranked == ranking'.ranked_entry_points
            max_results == res'.args.max_results
            names == {ranked[i].component_name : i \in 1..Len(ranked)}
        IN  /\ Len(ranked) = IF max_results < Len(found) THEN max_results ELSE Len(found)
            /\ \A i \in 1..Len(ranked) :
                  /\ ranked[i].rank = i
                  /\ \E j \in 1..Len(found) :
                        /\ found[j].component_name = ranked[i].component_name
                        /\ Score(found[j]) = Score(ranked[i])
            /\ \A i, j \in 1..Len(ranked) :
                  i < j =>
                      /\ Score(ranked[i]) <= Score(ranked[j])
                      /\ Before(ranked[i], ranked[j])
            /\ \A j \in 1..Len(found) :
                  found[j].component_name \notin names =>
                      \A i \in 1..Len(ranked) : Before(ranked[i], found[j])
    ]_vars

\* three candidates, the first found has the highest score and is cut off,
\* the other two tie and keep their discovery order
C9_Witness ==
    /\ pc = "done"
    /\ Len(entry_point_candidates) = 3
    /\ Len(ranking.ranked_entry_points) = 2
    /\ Score(ranking.ranked_entry_points[1]) = Score(ranking.ranked_entry_points[2])
    /\ Score(entry_point_candidates[3]) > Score(ranking.ranked_entry_points[2])
    /\ entry_point_candidates[3].component_name = order[1]

\* the missing records whose parents include the component or a name
\* reachable from it
MissingOf(name) ==
    {r \in Range(missing_data) :
        Range(r.Parents) \cap ({name} \cup Reachable(graph, name)) # {}}

MissingOfWeight(name, weight) ==
    {r \in MissingOf(name) :
        get_component_priority_weight_local(r.Type, weights_config) = weight}

\* what is scored for a component of the graph: the names reachable from it
\* split by the weight of their type, and its CICS factor
PriorityOf(name) ==
    {d \in Reachable(graph, name) \cap DOMAIN ctype :
        get_component_priority_weight_local(ctype[d], weights_config)
            = weights_config.scoring_multipliers.priority_weight}

MediumOf(name) ==
    {d \in (Reachable(graph, name) \cap DOMAIN ctype) \ PriorityOf(name) :
        get_component_priority_weight_local(ctype[d], weights_config)
            = weights_config.scoring_multipliers.medium_weight}

IgnoredOf(name) == Reachable(graph, name) \ (PriorityOf(name) \cup MediumOf(name))

CicsFactorOf(name) ==
    IF name \in transaction_mapping THEN 5
    ELSE IF ctype[name] \in {"TRANSACTION", "BMS", "CICS_FILE"} THEN 3
    ELSE 0

\* C10: for every candidate c the score is |priority| * priority_weight +
\* |medium| * medium_weight + |priorityMissing| * missing_priority_penalty +
\* |mediumMissing| * missing_medium_penalty + cicsFactor *
\* cics_complexity_factor, priorityMissing and mediumMissing being the missing
\* records of c and its closure of priority and of medium weight, and
\* priority, medium and ignored splitting the closure of c, each member
\* counted once: priority + medium + ignored = total_dependencies.
C10_ScoreAsStated ==
    \A i \in 1..Len(entry_point_candidates) :
        LET c == entry_point_candidates[i]
            name == c.component_name
            m == weights_config.scoring_multipliers
        IN  /\ c.priority_dependencies = Cardinality(PriorityOf(name))
            /\ c.medium_dependencies = Cardinality(MediumOf(name))
            /\ c.ignored_dependencies = Cardinality(IgnoredOf(name))
            /\ c.priority_dependencies + c.medium_dependencies + c.ignored_dependencies
                  = c.total_dependencies
            /\ Score(c) = Cardinality(PriorityOf(name)) * m.priority_weight
                          + Cardinality(MediumOf(name)) * m.medium_weight
                          + Cardinality(MissingOfWeight(name, m.priority_weight))
                                * m.missing_priority_penalty
                          + Cardinality(MissingOfWeight(name, m.medium_weight))
                                * m.missing_medium_penalty
                          + CicsFactorOf(name) * m.cics_complexity_factor

\* the part of C10 that the code keeps: the score is the stated sum over the
\* counts the record reports, and the dependency counts are those of the
\* split of the closure; only the two missing counts are not the numbers of
\* missing records
C10_ScoreOfBuckets ==
    \A i \in 1..Len(entry_point_candidates) :
        LET c == entry_point_candidates[i]
            m == weights_config.scoring_multipliers
            closure == Reachable(graph, c.component_name)
            priority == PriorityOf(c.component_name)
            medium == MediumOf(c.component_name)
            ignored == IgnoredOf(c.component_name)
            cics == CicsFactorOf(c.component_name)
        IN  /\ c.priority_dependencies = Cardinality(priority)
            /\ c.medium_dependencies = Cardinality(medium)
            /\ c.ignored_dependencies = Cardinality(ignored)
            /\ c.total_dependencies = Cardinality(closure)
            /\ c.priority_dependencies + c.medium_dependencies + c.ignored_dependencies
                  = c.total_dependencies
            /\ c.cics_complexity_factor = cics
            /\ Score(c) = Cardinality(priority) * m.priority_weight
                          + Cardinality(medium) * m.medium_weight
                          + c.missing_priority_count * m.missing_priority_penalty
                          + c.missing_medium_count * m.missing_medium_penalty
                          + cics * m.cics_complexity_factor

\* the example of the spec: A -> [B, C], B -> [C], B medium, C priority; C is
\* reached over two paths and counted once
C10_Witness ==
    /\ Len(entry_point_candidates) >= 1
    /\ graph = [n \in Names |-> IF n = "A" THEN <<"B", "C">>
                                 ELSE IF n = "B" THEN <<"C">> ELSE <<>>]
    /\ LET c == entry_point_candidates[1]
       IN  /\ c.component_name = "A"
           /\ c.priority_dependencies = 1
           /\ c.medium_dependencies = 1
           /\ c.total_dependencies = 2
           /\ Score(c) = 17

\* a candidate whose score holds a missing-priority, a missing-medium and a
\* CICS term
C10_WitnessMissing ==
    \E i \in 1..Len(entry_point_candidates) :
        LET c == entry_point_candidates[i]
        IN  /\ c.missing_priority_count > 0
            /\ c.missing_medium_count > 0
            /\ c.cics_complexity_factor = 5

\* C11: for every candidate c the missing components gathered are the
\* missing records with a parent among c and the names reachable from c, and
\* missing_priority_count and missing_medium_count are the numbers of those
\* records of priority and of medium weight, each record counted once, also
\* when several of its parents are among them or c lies on a cycle.
C11_MissingRecordsCountedOnce ==
    \A i \in 1..Len(entry_point_candidates) :
        LET c == entry_point_candidates[i]
            m == weights_config.scoring_multipliers
        IN  /\ c.missing_priority_count
                  = Cardinality(MissingOfWeight(c.component_name, m.priority_weight))
            /\ c.missing_medium_count
                  = Cardinality(MissingOfWeight(c.component_name, m.medium_weight))

----------------------------------------------------------------------------
(* The three lambda_handler operations.  An event is held by its shape and,  *)
(* when it is or decodes to an object, by the parameters it carries; what    *)
(* lies behind the S3 URIs is held by which downloads fail and whether the   *)
(* analysis raises.                                                          *)

\* "dict": a dict of parameters; "parameters": the agent format, a dict with a
\* 'parameters' list of name/value pairs; the others are str events: JSON
\* text of such a dict, its base64 encoding, text that is neither, and JSON
\* text of a list
EventShapes ==
    {"dict", "parameters", "json_string", "base64_string", "garbage_string",
     "json_list_string"}

UriParams == {"dependencies_s3_uri", "missing_components_s3_uri", "csd_s3_uri"}

ParamNames == UriParams \cup {"query_text", "max_results"}

\* values of a parameter: a non-empty string, and for max_results a decimal
\* and a text int() refuses
ParamValues(name) == IF name = "max_results" THEN {"10", "abc"} ELSE {name}

Events ==
    {[shape |-> sh, params |-> ps] :
        sh \in EventShapes,
        ps \in UNION {{f \in [K -> {"10", "abc"} \cup ParamNames] :
                          \A n \in K : f[n] \in ParamValues(n)} : K \in SUBSET ParamNames}}

Environments == [fails : SUBSET UriParams, analysis_fails : BOOLEAN]

\* lines 12-18 of each handler: a str event is replaced by what it decodes to;
\* json.loads raising leaves event the str it was
decode_event(event) ==
    IF event.shape \in {"dict", "parameters"} THEN [raised |-> FALSE, event |-> event]
    ELSE IF event.shape \in {"json_string", "base64_string"}
    THEN [raised |-> FALSE, event |-> [shape |-> "dict", params |-> event.params]]
    ELSE IF event.shape = "json_list_string"
    THEN [raised |-> FALSE, event |-> [shape |-> "list", params |-> <<>>]]
    ELSE [raised |-> TRUE, event |-> event]

\* event.get exists: the event is a dict
is_dict(event) == event.shape \in {"dict", "parameters"}

Responds(body, downloads, analyzed) ==
    [outcome |-> "returned", body |-> body, downloads |-> downloads, analyzed |-> analyzed]

Raises(exception, downloads, analyzed) ==
    [outcome |-> "raised", exception |-> exception, downloads |-> downloads,
     analyzed |-> analyzed]

\* building the response reads event.get('actionGroup', ...): on an event that
\* is no dict this raises AttributeError out of the handler
create_bedrock_response_NoEventGet(event, body, downloads, analyzed) == Responds(body, downloads, analyzed)

create_bedrock_response(event, body, downloads, analyzed) ==
    IF is_dict(event) THEN Responds(body, downloads, analyzed)
    ELSE Raises("AttributeError", downloads, analyzed)

KeyErrorText(name) ==
    IF name = "dependencies_s3_uri" THEN "'dependencies_s3_uri'" ELSE "'query_text'"

\* dependency-analysis lambda_handler, lines 9-69; the response of both the
\* normal and the except path is built with event.get (lines 43-44, 58-59)
dependency_analysis_lambda_handler(event, env) ==
    LET d == decode_event(event)
        ev == d.event
        except(text, downloads) == create_bedrock_response(ev, [error |-> text], downloads, FALSE)
    IN  IF d.raised THEN except("JSONDecodeError", <<>>)
        ELSE IF ~is_dict(ev) THEN except("TypeError", <<>>)
        ELSE IF "dependencies_s3_uri" \notin DOMAIN ev.params
        THEN except(KeyErrorText("dependencies_s3_uri"), <<>>)
        ELSE IF "query_text" \notin DOMAIN ev.params
        THEN except(KeyErrorText("query_text"), <<>>)
        ELSE IF "dependencies_s3_uri" \in env.fails
        THEN except("download failed", <<"dependencies_s3_uri">>)
        ELSE IF env.analysis_fails
        THEN create_bedrock_response(ev, [error |-> "analysis failed"],
                                     <<"dependencies_s3_uri">>, TRUE)
        ELSE create_bedrock_response(ev, [results |-> "dependency_results"],
                                     <<"dependencies_s3_uri">>, TRUE)

\* minimal-dependency-finder lambda_handler, lines 86-165
\* lines 112-125: the first required parameter that is absent, "" when none is
absent_required_parameter_DependenciesOnly(p) ==
    IF "dependencies_s3_uri" \notin DOMAIN p THEN "dependencies_s3_uri" ELSE ""

absent_required_parameter(p) ==
    IF "dependencies_s3_uri" \notin DOMAIN p THEN "dependencies_s3_uri"
    ELSE IF "missing_components_s3_uri" \notin DOMAIN p THEN "missing_components_s3_uri"
    ELSE ""

minimal_dependency_finder_lambda_handler(event, env) ==
    LET d == decode_event(event)
        ev == d.event
        p == ev.params
        except(text, downloads) == create_bedrock_response(ev, [error |-> text], downloads, FALSE)
        deps == <<"dependencies_s3_uri">>
        both == <<"dependencies_s3_uri", "missing_components_s3_uri">>
        all == IF "csd_s3_uri" \in DOMAIN p THEN both \o <<"csd_s3_uri">> ELSE both
    IN  IF d.raised THEN except("JSONDecodeError", <<>>)
        ELSE IF ~is_dict(ev) THEN except("AttributeError", <<>>)
        ELSE IF "max_results" \in DOMAIN p /\ p["max_results"] = "abc"
        THEN except("ValueError", <<>>)
        ELSE IF absent_required_parameter(p) = "dependencies_s3_uri"
        THEN create_bedrock_response(ev,
                 [error |-> "Missing required parameter: dependencies_s3_uri",
                  message |-> "Please provide the S3 URI for your ATX dependency graph JSON file",
                  required_format |-> "s3://bucket-name/path/dependencies_YYYYMMDDHHMMSS.json"],
                 <<>>, FALSE)
        ELSE IF absent_required_parameter(p) = "missing_components_s3_uri"
        THEN create_bedrock_response(ev,
                 [error |-> "Missing required parameter: missing_components_s3_uri",
                  message |-> "Please provide the S3 URI for your missing components CSV file",
                  required_format |-> "s3://bucket-name/path/missing_YYYYMMDDHHMMSS.csv"],
                 <<>>, FALSE)
        ELSE IF "dependencies_s3_uri" \in env.fails THEN except("download failed", deps)
        ELSE IF "missing_components_s3_uri" \in env.fails
        THEN create_bedrock_response(ev,
                 [error |-> "Failed to download missing components",
                  message |-> "Please verify the missing components S3 URI is correct and accessible"],
                 both, FALSE)
        ELSE IF "csd_s3_uri" \in DOMAIN p /\ "csd_s3_uri" \in env.fails
        THEN create_bedrock_response(ev,
                 [warning |-> "CSD file could not be loaded",
                  message |-> "Proceeding with analysis without CSD data"],
                 all, FALSE)
        ELSE IF env.analysis_fails
        THEN create_bedrock_response(ev, [error |-> "analysis failed"], all, TRUE)
        ELSE create_bedrock_response(ev,
                 [results |-> "ranked_entry_points",
                  csd_data |-> IF "csd_s3_uri" \in DOMAIN p THEN "csd_s3_uri" ELSE "None"],
                 all, TRUE)

\* missing-component-analysis lambda_handler, lines 10-74: both URIs have
\* defaults (lines 29-30), so both downloads are always tried
missing_component_analysis_lambda_handler(event, env) ==
    LET d == decode_event(event)
        ev == d.event
        except(text, downloads) == create_bedrock_response(ev, [error |-> text], downloads, FALSE)
        both == <<"missing_components_s3_uri", "dependencies_s3_uri">>
    IN  IF d.raised THEN except("JSONDecodeError", <<>>)
        ELSE IF ~is_dict(ev) THEN except("AttributeError", <<>>)
        ELSE IF "missing_components_s3_uri" \in env.fails
        THEN except("download failed", <<"missing_components_s3_uri">>)
        ELSE IF "dependencies_s3_uri" \in env.fails THEN except("download failed", both)
        ELSE IF env.analysis_fails
        THEN create_bedrock_response(ev, [error |-> "analysis failed"], both, TRUE)
        ELSE create_bedrock_response(ev, [results |-> "risk_assessment"], both, TRUE)

\* SpecHandler: one event is handed to one of the three handlers
NoGraph ==
    /\ graph = <<>>
    /\ order = <<>>
    /\ ctype = <<>>

NoRankingState ==
    /\ weights_config = [priority_types |-> <<>>, medium_types |-> <<>>,
                         scoring_multipliers |-> <<>>]
    /\ missing_data = <<>>
    /\ missing_by_parent = <<>>
    /\ transaction_mapping = {}
    /\ scan_pos = 0
    /\ entry_point_candidates = <<>>
    /\ ranking = [ranked_entry_points |-> <<>>]

InitHandler ==
    /\ req \in [event : Events, env : Environments]
    /\ res = [op |-> "none"]
    /\ pc = "invoke"
    /\ NoGraph
    /\ NoInvocation
    /\ NoRankingState

HandleDependencyQuery ==
    /\ pc = "invoke"
    /\ LET out == dependency_analysis_lambda_handler(req.event, req.env)
       IN  /\ res' = [op |-> "dependency-analysis", out |-> out]
           /\ pc' = out.outcome
    /\ UNCHANGED <<graph, order, ctype, closureVars, weights_config, missing_data,
                   missing_by_parent, transaction_mapping, req, scan_pos,
                   entry_point_candidates, ranking>>

HandleEntryPointRanking ==
    /\ pc = "invoke"
    /\ LET out == minimal_dependency_finder_lambda_handler(req.event, req.env)
       IN  /\ res' = [op |-> "minimal-dependency-finder", out |-> out]
           /\ pc' = out.outcome
    /\ UNCHANGED <<graph, order, ctype, closureVars, weights_config, missing_data,
                   missing_by_parent, transaction_mapping, req, scan_pos,
                   entry_point_candidates, ranking>>

HandleRiskAnalysis ==
    /\ pc = "invoke"
    /\ LET out == missing_component_analysis_lambda_handler(req.event, req.env)
       IN  /\ res' = [op |-> "missing-component-analysis", out |-> out]
           /\ pc' = out.outcome
    /\ UNCHANGED <<graph, order, ctype, closureVars, weights_config, missing_data,
                   missing_by_parent, transaction_mapping, req, scan_pos,
                   entry_point_candidates, ranking>>

NextHandler == HandleDependencyQuery \/ HandleEntryPointRanking \/ HandleRiskAnalysis

SpecHandler == InitHandler /\ [][NextHandler]_vars

----------------------------------------------------------------------------
(* Claims on the handlers (SpecHandler). *)

\* the event is, or decodes to, a dict of parameters
IsRequest(event) == ~decode_event(event).raised /\ is_dict(decode_event(event).event)

Handler == res.op

\* C12: each of the three handlers returns a response for every event and
\* never raises: an event string that cannot be decoded, an absent required
\* field, a failed download and a failed analysis all give an error payload.
C12_HandlersNeverRaise ==
    pc # "invoke" =>
        /\ res.out.outcome = "returned"
        /\ ~IsRequest(req.event) => "error" \in DOMAIN res.out.body
        /\ (res.out.analyzed /\ req.env.analysis_fails) => "error" \in DOMAIN res.out.body

\* C13: in the ranking handler a transaction table that is supplied and fails
\* to load does not stop the analysis: the response holds the ranked entry
\* points, computed without transaction data.
C13_CsdFailureStillRanks ==
    (/\ Handler = "minimal-dependency-finder"
     /\ IsRequest(req.event)
     /\ {"dependencies_s3_uri", "missing_components_s3_uri", "csd_s3_uri"}
            \subseteq DOMAIN req.event.params
     /\ ("max_results" \in DOMAIN req.event.params => req.event.params["max_results"] = "10")
     /\ req.env = [fails |-> {"csd_s3_uri"}, analysis_fails |-> FALSE])
    => /\ res.out.outcome = "returned"
       /\ res.out.analyzed
       /\ "results" \in DOMAIN res.out.body
       /\ res.out.body.results = "ranked_entry_points"
       /\ res.out.body.csd_data = "None"

StructuredError(out) ==
    /\ out.outcome = "returned"
    /\ "error" \in DOMAIN out.body
    /\ out.downloads = <<>>
    /\ ~out.analyzed

ValidMaxResults(p) == "max_results" \in DOMAIN p => p["max_results"] = "10"

----------------------------------------------------------------------------
(* analyze_dependencies.  A query is its text, a sequence of characters,    *)
(* and the matches that re.findall gives for the three patterns on it, in   *)
(* the order in which they are tried.                                       *)

\* largest SAMPLE_LIMIT of the environment
MaxSampleLimit == 2

KeywordGroups == <<"database", "cics", "batch", "cobol">>

\* lines 206-216: the types of each keyword group
group_types(group) ==
    IF group = "database" THEN <<"DDL", "DCL", "SQL", "dcl">>
    ELSE IF group = "cics" THEN <<"TRANSACTION", "BMS", "CICS_FILE", "CSDCOMMAND">>
    ELSE IF group = "batch" THEN <<"JCL", "PROC">>
    ELSE <<"COB", "COBOL", "CPY">>

group_description(group) ==
    IF group = "database" THEN "database components"
    ELSE IF group = "cics" THEN "CICS/online components"
    ELSE IF group = "batch" THEN "JCL/batch components"
    ELSE "COBOL components"

\* lines 206-215: the keywords of each group, the defaults of the environment
group_keywords(group) ==
    IF group = "database"
    THEN {<<"d", "a", "t", "a", "b", "a", "s", "e">>, <<"s", "q", "l">>, <<"d", "d", "l">>,
          <<"d", "c", "l">>, <<"d", "b", "2">>, <<"t", "a", "b", "l", "e">>,
          <<"s", "c", "h", "e", "m", "a">>,
          <<"i", "n", "t", "e", "g", "r", "a", "t", "i", "o", "n">>}
    ELSE IF group = "cics"
    THEN {<<"c", "i", "c", "s">>,
          <<"t", "r", "a", "n", "s", "a", "c", "t", "i", "o", "n">>, <<"b", "m", "s">>,
          <<"s", "c", "r", "e", "e", "n">>, <<"o", "n", "l", "i", "n", "e">>}
    ELSE IF group = "batch"
    THEN {<<"j", "c", "l">>, <<"j", "o", "b">>, <<"b", "a", "t", "c", "h">>,
          <<"p", "r", "o", "c", "e", "d", "u", "r", "e">>}
    ELSE {<<"c", "o", "b", "o", "l">>, <<"p", "r", "o", "g", "r", "a", "m">>,
          <<"c", "o", "p", "y", "b", "o", "o", "k">>}

\* str.lower() and str.upper() of a character; the texts of the model hold
\* these capitals and no other
Lower(t) ==
    CASE t = "A" -> "a" [] t = "B" -> "b" [] t = "C" -> "c" [] t = "I" -> "i"
      [] t = "J" -> "j" [] t = "L" -> "l" [] t = "O" -> "o" [] t = "Q" -> "q"
      [] t = "S" -> "s" [] t = "X" -> "x" [] OTHER -> t

Upper(t) ==
    CASE t = "a" -> "A" [] t = "b" -> "B" [] t = "c" -> "C" [] t = "i" -> "I"
      [] t = "j" -> "J" [] t = "l" -> "L" [] t = "o" -> "O" [] t = "q" -> "Q"
      [] t = "s" -> "S" [] t = "x" -> "X" [] OTHER -> t

lower(text) == [i \in DOMAIN text |-> Lower(text[i])]

upper(text) == [i \in DOMAIN text |-> Upper(text[i])]

\* `sub in text` of two strings
Contained(sub, text) ==
    \E i \in 0..(Len(text) - Len(sub)) : \A j \in 1..Len(sub) : text[i + j] = sub[j]

\* lines 201-246
detect_query_intent_LastGroupWins(query) ==
    LET query_lower == lower(query.text)
        hits == SelectSeq(KeywordGroups, LAMBDA grp :
                    \E keyword \in group_keywords(grp) : Contained(keyword, query_lower))
    IN  IF hits = <<>> THEN [intent |-> "dependency_analysis"]
        ELSE [intent |-> "component_type_search",
              types |-> group_types(hits[Len(hits)]),
              description |-> group_description(hits[Len(hits)])]

detect_query_intent(query) ==
    LET query_lower == lower(query.text)
        hits == SelectSeq(KeywordGroups, LAMBDA grp :
                    \E keyword \in group_keywords(grp) : Contained(keyword, query_lower))
    IN  IF hits = <<>> THEN [intent |-> "dependency_analysis"]
        ELSE [intent |-> "component_type_search",
              types |-> group_types(hits[1]),
              description |-> group_description(hits[1])]

\* the characters of a name; a name of the model that is not listed here is
\* one character
Chars(name) ==
    CASE name = "AB" -> <<"A", "B">> [] name = "Ab" -> <<"A", "b">>
      [] name = "aB" -> <<"a", "B">> [] name = "ab" -> <<"a", "b">>
      [] OTHER -> <<name>>

\* lines 259-270: what a match adds to targets
resolve_match(match, ord) ==
    IF match \in Range(ord) THEN <<match>>
    ELSE LET equal == SelectSeq(ord, LAMBDA comp_name :
                          lower(Chars(comp_name)) = lower(Chars(match)))
         IN  IF equal = <<>> THEN <<>> ELSE <<equal[1]>>

\* lines 249-277: targets before line 279
targets_of(query, ord) ==
    LET RECURSIVE matched(_)
        matched(i) ==
            IF i > Len(query.matches) THEN <<>>
            ELSE resolve_match(query.matches[i], ord) \o matched(i + 1)
    IN  IF matched(1) # <<>> THEN matched(1)
        ELSE SelectSeq(ord, LAMBDA comp_name :
                 Contained(upper(Chars(comp_name)), upper(query.text)))

\* lines 248-279; perm is the order in which list(set(targets)) lists the set
extract_targets_from_query_NoSet(query, ord, perm) == targets_of(query, ord)

extract_targets_from_query(query, ord, perm) ==
    SelectSeq(perm, LAMBDA n : n \in Range(targets_of(query, ord)))

\* the slice seq[:n] of lines 166, 173, 176, 177, 184, 185 (a negative n
\* counts from the end)
Take_Whole(seq, n) == seq

Take(seq, n) ==
    IF n >= 0 THEN SubSeq(seq, 1, IF n < Len(seq) THEN n ELSE Len(seq))
    ELSE SubSeq(seq, 1, IF Len(seq) + n > 0 THEN Len(seq) + n ELSE 0)

\* lines 81-88, 133: the limits of the environment, with their defaults
default_limits ==
    [direct_deps_limit |-> 10, transitive_chains_limit |-> 10, dependents_limit |-> 30,
     dependencies_limit |-> 20, results_limit |-> 50, chains_results_limit |-> 20,
     max_depth |-> 10, sample_limit |-> 10]

\* lines 155-168: the record of a target
target_record(target, g, types, limits) ==
    [component_name |-> target,
     component_type |-> TypeOf(types, target),
     dependency_count |-> Len(Deps(g, target)),
     access_details |-> Take(Deps(g, target), limits.direct_deps_limit),
     is_target |-> TRUE]

\* lines 104-111: the record of a component found by its type
type_record(name, g, types) ==
    [component_name |-> name,
     component_type |-> TypeOf(types, name),
     dependency_count |-> Len(Deps(g, name)),
     access_details |-> <<>>,
     is_target |-> FALSE]

\* lines 135-140
no_targets_found_Unbounded(ord, query, limits) ==
    [error |-> "No target components found in query",
     available_components_sample |-> ord,
     query_received |-> query]

no_targets_found(ord, query, limits) ==
    [error |-> "No target components found in query",
     available_components_sample |-> Take(ord, limits.sample_limit),
     query_received |-> query]

\* lines 79-199; perm is the order in which sets are iterated (the targets of
\* line 147, the closure in find_dependencies)
analyze_dependencies(g, ord, types, query, include_transitive, component_types, limits, perm) ==
    LET query_intent == detect_query_intent(query)
        target_components ==
            extract_targets_from_query(query, ord, perm)
        iter(S) == SelectSeq(perm, LAMBDA n : n \in S)
        results_of(target) ==
            <<target_record(target, g, types, limits)>>
            \o Take(find_dependents(target, g, ord, types, include_transitive),
                    limits.dependents_limit)
            \o Take(find_dependencies(target, g, types, include_transitive,
                        iter(get_all_transitive_dependencies(target, g, {}))),
                    limits.dependencies_limit)
        chains_of(target) ==
            IF include_transitive
            THEN Take(get_dependency_chains(target, g, types, limits.max_depth, <<target>>),
                      limits.transitive_chains_limit)
            ELSE <<>>
        RECURSIVE results(_)
        results(i) ==
            IF i > Len(target_components) THEN <<>>
            ELSE results_of(target_components[i]) \o results(i + 1)
        RECURSIVE chains(_)
        chains(i) ==
            IF i > Len(target_components) THEN <<>>
            ELSE chains_of(target_components[i]) \o chains(i + 1)
        dependency_results ==
            IF component_types = {} THEN results(1)
            ELSE SelectSeq(results(1), LAMBDA r : r.component_type \in component_types)
    IN  IF query_intent.intent = "component_type_search"
        THEN LET matching_components ==
                     [i \in 1..Len(SelectSeq(ord, LAMBDA n :
                                      TypeOf(types, n) \in Range(query_intent.types))) |->
                         type_record(SelectSeq(ord, LAMBDA n :
                                        TypeOf(types, n) \in Range(query_intent.types))[i],
                                     g, types)]
             IN  [dependency_results |-> Take(matching_components, limits.results_limit),
                  transitive_chains |-> <<>>,
                  impact_scope |-> [total_components |-> Len(matching_components),
                                    targets_found |-> 0,
                                    bidirectional_analysis |-> FALSE],
                  query_interpretation |-> [query_type |-> "component_type_search",
                                            types_requested |-> query_intent.types,
                                            description |-> query_intent.description]]
        ELSE IF target_components = <<>> THEN no_targets_found(ord, query, limits)
        ELSE [dependency_results |-> Take(dependency_results, limits.results_limit),
              transitive_chains |-> Take(chains(1), limits.chains_results_limit),
              impact_scope |-> [total_components |-> Len(dependency_results),
                                targets_found |-> Len(target_components),
                                bidirectional_analysis |-> TRUE],
              query_interpretation |-> [targets_identified |-> target_components,
                                        include_transitive |-> include_transitive,
                                        component_type_filter |-> component_types]]

\* SpecAnalysis: the two analyses are run on their inputs, analyze_dependencies
\* on a graph and a query, the entry-point ranking as in SpecRank
Tokens == {"A", "b", "X"}

\* the words of the texts: a keyword of each group, and the tokens
KeywordWords == {<<"s", "q", "l">>, <<"C", "I", "C", "S">>, <<"J", "o", "b">>,
                 <<"c", "o", "b", "o", "l">>}

Words == KeywordWords \cup {<<t>> : t \in Tokens}

\* texts of up to two words
Texts == {<<>>} \cup {p \o q : p \in Words, q \in Words \cup {<<>>}}

\* no keyword of any group is in the text, whatever the case of the text
NoKeyword(query) ==
    \A grp \in Range(KeywordGroups) :
        \A keyword \in group_keywords(grp) : ~Contained(keyword, lower(query.text))

\* a query: a text and up to one token of the text that a pattern matched;
\* the matches of a text with a keyword are never looked at
Queries ==
    {q \in [text : Texts, matches : SeqsOver(Tokens, 1)] :
        /\ \A i \in 1..Len(q.matches) : q.matches[i] \in Range(q.text)
        /\ ~NoKeyword(q) => q.matches = <<>>}

\* no pattern match of the query is a component name, in any case, and no
\* component name is contained in the query
ResolvesNoTarget(query) ==
    /\ \A i \in 1..Len(query.matches) :
          \A n \in Range(order) : Lower(n) # Lower(query.matches[i])
    /\ \A n \in Range(order) : ~Contained(upper(Chars(n)), upper(query.text))

\* lines 135-139: sample_limit is read only when no target is found
InitQuery ==
    /\ graph \in RankGraphs
    /\ order = Prefix(Cardinality(DOMAIN graph))
    /\ ctype = [n \in DOMAIN graph |-> TypeOfName[n]]
    /\ req \in [query : Queries,
                include_transitive : {TRUE},
                component_types : {{}},
                limits : {[default_limits EXCEPT !.sample_limit = k, !.max_depth = MaxDepth] :
                             k \in 0..MaxSampleLimit}]
    /\ ~(NoKeyword(req.query) /\ ResolvesNoTarget(req.query)) =>
          req.limits.sample_limit = MaxSampleLimit
    /\ res = [op |-> "none"]
    /\ pc = "query"
    /\ NoInvocation
    /\ NoRankingState

Analyze ==
    /\ pc = "query"
    /\ \E perm \in Perms(Names) :
          res' = [op |-> "analyze_dependencies",
                  out |-> analyze_dependencies(graph, order, ctype, req.query,
                                               req.include_transitive, req.component_types,
                                               req.limits, perm)]
    /\ pc' = "answered"
    /\ UNCHANGED <<graph, order, ctype, closureVars, weights_config, missing_data,
                   missing_by_parent, transaction_mapping, req, scan_pos,
                   entry_point_candidates, ranking>>

InitAnalysis == InitQuery \/ InitRank

NextAnalysis ==
    \/ Analyze
    \/ SkipNoEntryPoint
    \/ SkipNotExecuting
    \/ ScoreCandidate
    \/ \E max_results \in 0..MaxResults :
          /\ max_results <= Len(entry_point_candidates) + 1
          /\ Rank(max_results)

SpecAnalysis == InitAnalysis /\ [][NextAnalysis]_vars

\* the component is of an entry-point type and reaches a known component of
\* the target category
EligibleAndExecuting(n) ==
    /\ is_entry_point_accurate(ctype[n], req.entry_point_types)
    /\ \E d \in Reachable(graph, n) \cap DOMAIN ctype :
          ctype[d] \in target_component_types(req.target_type)

\* C15: a targeted query that resolves no target is answered by the 'no
\* targets found' object, with the query received and a sample of the known
\* component names, the first min(sample limit, number of components) of
\* them; a ranking without eligible and executing candidate returns an empty
\* ranked list with a summary that says so.
C15_NoMatchIsAResult ==
    /\ (pc = "answered" /\ NoKeyword(req.query) /\ ResolvesNoTarget(req.query))
       => /\ res.out.error = "No target components found in query"
          /\ res.out.query_received = req.query
          /\ Len(res.out.available_components_sample) <= req.limits.sample_limit
          /\ Len(res.out.available_components_sample) =
                IF req.limits.sample_limit < Len(order)
                THEN req.limits.sample_limit ELSE Len(order)
          /\ \A i \in 1..Len(res.out.available_components_sample) :
                res.out.available_components_sample[i] = order[i]
    /\ (pc = "done" /\ \A n \in Range(order) : ~EligibleAndExecuting(n))
       => /\ ranking.ranked_entry_points = <<>>
          /\ ranking.search_criteria.total_candidates_found = 0
          /\ ranking.search_criteria.results_returned = 0
          /\ "message" \in DOMAIN ranking.analysis_summary
          /\ ranking.analysis_summary.recommendations = <<>>

\* a query whose only match is an unknown name, on three components with a
\* sample limit of two
C15_Witness ==
    /\ pc = "answered"
    /\ req.query.matches = <<"X">>
    /\ Len(order) = 3
    /\ req.limits.sample_limit = 2
    /\ "error" \in DOMAIN res.out
    /\ res.out.available_components_sample = <<"A", "B">>

\* a ranking over components none of which is eligible and executing
C15_WitnessRanking ==
    /\ pc = "done"
    /\ Len(order) = 3
    /\ ranking.ranked_entry_points = <<>>
    /\ "message" \in DOMAIN ranking.analysis_summary

----------------------------------------------------------------------------
(* missing-component-analysis: risk scores, overall risk, completeness.     *)
(* The configuration is what calculate_risk_scores and                      *)
(* determine_overall_risk read from os.environ.                             *)

\* lines 128-155, 325-326: the defaults
default_risk_config ==
    [parent_high_threshold |-> 5, parent_medium_threshold |-> 2,
     parent_high_score |-> 30, parent_medium_score |-> 20, parent_low_score |-> 10,
     critical_type_score |-> 40, high_risk_type_score |-> 25, medium_risk_type_score |-> 15,
     jcl_parent_bonus |-> 20,
     critical_threshold |-> 70, high_threshold |-> 50, medium_threshold |-> 30,
     critical_types |-> {"Missing Program", "Missing Copybook"},
     high_risk_types |-> {"Missing Database Object", "Missing Control Card"},
     medium_risk_types |-> {"Missing Dataset"},
     no_risk_types |-> {"Missing Source File", "Missing Header", "System"},
     high_risk_count_threshold |-> 5, medium_risk_count_threshold |-> 10]

\* an environment that lowers the parent and the count thresholds
small_risk_config ==
    [default_risk_config EXCEPT !.parent_high_threshold = 2, !.parent_medium_threshold = 1,
                                !.high_risk_count_threshold = 1,
                                !.medium_risk_count_threshold = 1]

\* an environment that also lists a no-risk type as critical and the
\* medium-risk type as high-risk
overlapping_risk_config ==
    [small_risk_config EXCEPT !.critical_types = @ \cup {"System"},
                              !.high_risk_types = @ \cup {"Missing Dataset"}]

\* dependencies_data is a non-empty list (lines 159, 207, 238: `if dependencies_data`)
has_dependencies_data(dependencies_data, ord) == dependencies_data = "list" /\ ord # <<>>

\* line 181
parent_count(row) == Len(SelectSeq(row.Parents, LAMBDA p : p # ""))

\* lines 180-190
parent_score_TiersSwapped(count, config) ==
    IF count > config.parent_high_threshold THEN config.parent_low_score
    ELSE IF count > config.parent_medium_threshold THEN config.parent_medium_score
    ELSE IF count > 0 THEN config.parent_high_score
    ELSE 0

parent_score(count, config) ==
    IF count > config.parent_high_threshold THEN config.parent_high_score
    ELSE IF count > config.parent_medium_threshold THEN config.parent_medium_score
    ELSE IF count > 0 THEN config.parent_low_score
    ELSE 0

\* lines 192-204
type_score_CriticalFirst(missing_type, config) ==
    IF missing_type \in config.critical_types THEN config.critical_type_score
    ELSE IF missing_type \in config.no_risk_types THEN 0
    ELSE IF missing_type \in config.high_risk_types THEN config.high_risk_type_score
    ELSE IF missing_type \in config.medium_risk_types THEN config.medium_risk_type_score
    ELSE 0

type_score(missing_type, config) ==
    IF missing_type \in config.no_risk_types THEN 0
    ELSE IF missing_type \in config.critical_types THEN config.critical_type_score
    ELSE IF missing_type \in config.high_risk_types THEN config.high_risk_type_score
    ELSE IF missing_type \in config.medium_risk_types THEN config.medium_risk_type_score
    ELSE 0

\* lines 157-169, 208-209: the JCL components that list the missing name,
\* once per listing
jcl_parents(missing_name, g, ord, types) ==
    LET RECURSIVE items(_)
        items(i) ==
            IF i > Len(ord) THEN <<>>
            ELSE SelectSeq([j \in 1..Len(g[ord[i]]) |->
                               [parent |-> ord[i], parent_type |-> types[ord[i]],
                                name |-> g[ord[i]][j]]],
                           LAMBDA e : e.name = missing_name /\ e.parent_type = "JCL")
                 \o items(i + 1)
    IN  items(1)

\* lines 206-212
jcl_score_PerParent(missing_name, dependencies_data, g, ord, types, config) ==
    IF has_dependencies_data(dependencies_data, ord)
    THEN Len(jcl_parents(missing_name, g, ord, types)) * config.jcl_parent_bonus
    ELSE 0

jcl_score(missing_name, dependencies_data, g, ord, types, config) ==
    IF has_dependencies_data(dependencies_data, ord)
       /\ jcl_parents(missing_name, g, ord, types) # <<>>
    THEN config.jcl_parent_bonus
    ELSE 0

\* lines 214-222
risk_level_StrictlyAbove(risk_score, config) ==
    IF risk_score > config.critical_threshold THEN "CRITICAL"
    ELSE IF risk_score > config.high_threshold THEN "HIGH"
    ELSE IF risk_score > config.medium_threshold THEN "MEDIUM"
    ELSE "LOW"

risk_level(risk_score, config) ==
    IF risk_score >= config.critical_threshold THEN "CRITICAL"
    ELSE IF risk_score >= config.high_threshold THEN "HIGH"
    ELSE IF risk_score >= config.medium_threshold THEN "MEDIUM"
    ELSE "LOW"

\* lines 171-232: the entry of risk_scores for one row
risk_record(row, dependencies_data, g, ord, types, config) ==
    LET score == parent_score(parent_count(row), config)
                 + type_score(row.Type, config)
                 + jcl_score(row.Name, dependencies_data, g, ord, types, config)
        count == parent_count(row)
        parent_factor ==
            IF count > config.parent_high_threshold THEN <<"High parent count">>
            ELSE IF count > config.parent_medium_threshold THEN <<"Medium parent count">>
            ELSE IF count > 0 THEN <<"Low parent count">>
            ELSE <<>>
        type_factor ==
            IF row.Type \in config.no_risk_types THEN <<"No-risk component type">>
            ELSE IF row.Type \in config.critical_types THEN <<"Critical component type">>
            ELSE IF row.Type \in config.high_risk_types THEN <<"High-risk component type">>
            ELSE IF row.Type \in config.medium_risk_types
            THEN <<"Medium-risk component type">>
            ELSE <<>>
        jcl_factor ==
            IF has_dependencies_data(dependencies_data, ord)
               /\ jcl_parents(row.Name, g, ord, types) # <<>>
            THEN <<"Referenced by JCL">>
            ELSE <<>>
    IN  [name |-> row.Name,
         type |-> row.Type,
         risk_score |-> score,
         risk_level |-> risk_level(score, config),
         risk_factors |-> parent_factor \o type_factor \o jcl_factor,
         parent_count |-> count,
         parents |-> SelectSeq(row.Parents, LAMBDA p : p # "")]

CountLevel(risk_analysis, level) ==
    Cardinality({n \in DOMAIN risk_analysis : risk_analysis[n].risk_level = level})

\* lines 314-335
determine_overall_risk_AtLeast(risk_analysis, config) ==
    IF DOMAIN risk_analysis = {} THEN "UNKNOWN"
    ELSE IF CountLevel(risk_analysis, "CRITICAL") > 0 THEN "CRITICAL"
    ELSE IF CountLevel(risk_analysis, "HIGH") >= config.high_risk_count_threshold THEN "HIGH"
    ELSE IF CountLevel(risk_analysis, "HIGH") > 0
            \/ CountLevel(risk_analysis, "MEDIUM") >= config.medium_risk_count_threshold
    THEN "MEDIUM"
    ELSE "LOW"

determine_overall_risk(risk_analysis, config) ==
    IF DOMAIN risk_analysis = {} THEN "UNKNOWN"
    ELSE IF CountLevel(risk_analysis, "CRITICAL") > 0 THEN "CRITICAL"
    ELSE IF CountLevel(risk_analysis, "HIGH") > config.high_risk_count_threshold THEN "HIGH"
    ELSE IF CountLevel(risk_analysis, "HIGH") > 0
            \/ CountLevel(risk_analysis, "MEDIUM") > config.medium_risk_count_threshold
    THEN "MEDIUM"
    ELSE "LOW"

\* round(x, 1) of x = num / den, den > 0, in tenths: the nearest tenth, a tie
\* going to the even one
round_1_Truncating(num, den) == (10 * num) \div den

round_1(num, den) ==
    LET q == (10 * num) \div den
        r == (10 * num) - q * den
    IN  IF 2 * r > den THEN q + 1
        ELSE IF 2 * r < den THEN q
        ELSE IF q % 2 = 0 THEN q ELSE q + 1

\* lines 255-266; score = num / den
get_completeness_assessment(num, den) ==
    IF num >= 90 * den THEN "Excellent - System is highly complete"
    ELSE IF num >= 80 * den THEN "Good - System is mostly complete"
    ELSE IF num >= 70 * den THEN "Fair - Some gaps exist"
    ELSE IF num >= 60 * den THEN "Poor - Significant gaps exist"
    ELSE "Critical - Major components missing"

\* lines 236-253; score is held in tenths
calculate_completeness_score_MissingShare(rows, dependencies_data, ord) ==
    IF ~has_dependencies_data(dependencies_data, ord)
    THEN [score |-> 0, message |-> "Cannot calculate without dependency data"]
    ELSE [score |-> round_1(Len(rows) * 100, Len(ord)),
          total_components |-> Len(ord),
          missing_components |-> Len(rows),
          available_components |-> Len(ord) - Len(rows),
          assessment |-> get_completeness_assessment(Len(rows) * 100, Len(ord))]

calculate_completeness_score(rows, dependencies_data, ord) ==
    IF ~has_dependencies_data(dependencies_data, ord)
    THEN [score |-> 0, message |-> "Cannot calculate without dependency data"]
    ELSE LET total_components == Len(ord)
             missing_count == Len(rows)
         IN  [score |-> round_1((total_components - missing_count) * 100, total_components),
              total_components |-> total_components,
              missing_components |-> missing_count,
              available_components |-> total_components - missing_count,
              assessment |-> get_completeness_assessment(
                                 (total_components - missing_count) * 100, total_components)]

----------------------------------------------------------------------------
(* SpecRisk: analyze_missing_components on one missing-component table and  *)
(* one dependency context.  The loop of line 171 scores one row per step;   *)
(* the last step assembles the assessment.                                  *)

\* largest number of parents in the Parents cell of a row
MaxParents == 3

\* largest number of rows of a table that is summarised
MaxRows == 2

\* a type of each list of the default configuration, and one of no list
RiskTypes == {"Missing Program", "Missing Database Object", "Missing Dataset",
              "System", "Unlisted"}

RiskConfigs == {default_risk_config, small_risk_config, overlapping_risk_config}

ParentsOf(n) == [i \in 1..n |-> NameOrder[((i - 1) % Len(NameOrder)) + 1]]

\* the Parents cell after split(','): n parents, possibly with a blank entry
RiskParentCells ==
    {ParentsOf(n) : n \in 0..MaxParents} \cup {<<"">>, <<"A", "">>}

\* dependencies_data: None, or a list of up to two components
RiskContexts ==
    {[dependencies_data |-> "None", graph |-> <<>>, order |-> <<>>, ctype |-> <<>>]}
    \cup UNION {
        {[dependencies_data |-> "list", graph |-> g, order |-> Prefix(n), ctype |-> t] :
            g \in RankGraphsOver(Range(Prefix(n))),
            t \in [Range(Prefix(n)) -> {"JCL", "COB"}]} : n \in 0..2}

\* dependencies_data: None, or a list of components that need nothing
PlainContexts ==
    {[dependencies_data |-> "None", graph |-> <<>>, order |-> <<>>, ctype |-> <<>>]}
    \cup {[dependencies_data |-> "list", graph |-> [c \in Range(Prefix(n)) |-> <<>>],
           order |-> Prefix(n), ctype |-> [c \in Range(Prefix(n)) |-> "COB"]] :
            n \in 0..Len(NameOrder)}

\* tables of distinctly named rows
RiskTables ==
    UNION {[1..k -> [Name : Names, Type : {"Missing Program", "Unlisted"},
                     Parents : {ParentsOf(n) : n \in 0..MaxParents}]] : k \in 0..MaxRows}

InitRisk ==
    /\ \/ /\ missing_data \in {<<[Name |-> nm, Type |-> t, Parents |-> ps]>> :
                                  nm \in {"B", "C"}, t \in RiskTypes, ps \in RiskParentCells}
          /\ weights_config \in RiskConfigs
          /\ \E c \in RiskContexts :
                /\ req = [dependencies_data |-> c.dependencies_data]
                /\ graph = c.graph
                /\ order = c.order
                /\ ctype = c.ctype
       \/ /\ missing_data \in {t \in RiskTables :
                                  \A i \in 1..Len(t) : t[i].Name = ParentsOf(i)[i]}
          /\ weights_config = small_risk_config
          /\ \E c \in PlainContexts :
                /\ req = [dependencies_data |-> c.dependencies_data]
                /\ graph = c.graph
                /\ order = c.order
                /\ ctype = c.ctype
    /\ scan_pos = 1
    /\ res = [op |-> "calculate_risk_scores", risk_scores |-> <<>>]
    /\ pc = "score"
    /\ missing_by_parent = <<>>
    /\ transaction_mapping = {}
    /\ entry_point_candidates = <<>>
    /\ ranking = [ranked_entry_points |-> <<>>]
    /\ NoInvocation

\* lines 171-232: one turn of the loop over the rows
ScoreRow ==
    /\ pc = "score"
    /\ scan_pos <= Len(missing_data)
    /\ LET row == missing_data[scan_pos]
           entry == risk_record(row, req.dependencies_data, graph, order, ctype,
                                weights_config)
       IN  res' = [res EXCEPT !.risk_scores =
                       [n \in DOMAIN @ \cup {row.Name} |->
                           IF n = row.Name THEN entry ELSE @[n]]]
    /\ scan_pos' = scan_pos + 1
    /\ UNCHANGED <<graph, order, ctype, pc, closureVars, weights_config, missing_data,
                   missing_by_parent, transaction_mapping, req,
                   entry_point_candidates, ranking>>

\* lines 95-120: the assessment built from the scores
Summarise ==
    /\ pc = "score"
    /\ scan_pos > Len(missing_data)
    /\ res' = [op |-> "analyze_missing_components",
               risk_scores |-> res.risk_scores,
               overall_risk |-> determine_overall_risk(res.risk_scores, weights_config),
               missing_count |-> Len(missing_data),
               completeness_score |->
                   calculate_completeness_score(missing_data, req.dependencies_data, order)]
    /\ pc' = "summarised"
    /\ UNCHANGED <<graph, order, ctype, closureVars, rankVars>>

NextRisk == ScoreRow \/ Summarise

SpecRisk == InitRisk /\ [][NextRisk]_vars

----------------------------------------------------------------------------
(* Claims about the risk scores. *)

\* the row scored last, and the score recorded for it
ScoredRow == missing_data[scan_pos - 1]

RowScored == scan_pos > 1 /\ scan_pos - 1 <= Len(missing_data)

RecordedScore == res.risk_scores[ScoredRow.Name].risk_score

ScoreIn(row, dependencies_data, g, ord, types, config) ==
    risk_record(row, dependencies_data, g, ord, types, config).risk_score

\* the row with another Parents cell that has at least as many parents
MoreParents ==
    {[ScoredRow EXCEPT !.Parents = ps] :
        ps \in {c \in RiskParentCells \cup {ParentsOf(MaxParents + 1)} :
                    parent_count([Parents |-> c]) >= parent_count(ScoredRow)}}

\* the configuration with the row's type taken off the no-risk list and put
\* on the critical list
TypeMadeCritical ==
    [weights_config EXCEPT !.no_risk_types = @ \ {ScoredRow.Type},
                           !.critical_types = @ \cup {ScoredRow.Type}]

\* the dependency contexts with one more JCL parent of the row: a new JCL
\* component that lists the row's name, or a JCL component that lists it too
JclParentAdded ==
    {[graph |-> [c \in DOMAIN graph \cup {n} |->
                    IF n \in DOMAIN graph /\ c # n THEN graph[c]
                    ELSE IF c = n /\ n \in DOMAIN graph THEN Append(graph[c], ScoredRow.Name)
                    ELSE IF c = n THEN <<ScoredRow.Name>>
                    ELSE graph[c]],
      order |-> IF n \in DOMAIN graph THEN order ELSE Append(order, n),
      ctype |-> [c \in DOMAIN graph \cup {n} |->
                    IF c = n /\ n \notin DOMAIN graph THEN "JCL" ELSE ctype[c]]] :
        n \in {m \in Names : m \in DOMAIN graph => ctype[m] = "JCL"}}

\* C16: with everything else as it was, the score of the row just scored is
\* not above its score with more non-empty parents, nor above its score once
\* its no-risk type is moved to the critical list (or the row is given a
\* critical type instead of its no-risk type), nor above its score once a JCL
\* parent is added to the dependency context.
C16_RiskScoreMonotone ==
    RowScored =>
        /\ \A row \in MoreParents :
              ScoreIn(row, req.dependencies_data, graph, order, ctype, weights_config)
                  >= RecordedScore
        /\ ScoredRow.Type \in weights_config.no_risk_types =>
              /\ ScoreIn(ScoredRow, req.dependencies_data, graph, order, ctype,
                         TypeMadeCritical) >= RecordedScore
              /\ \A t \in weights_config.critical_types \ weights_config.no_risk_types :
                    ScoreIn([ScoredRow EXCEPT !.Type = t], req.dependencies_data, graph,
                            order, ctype, weights_config) >= RecordedScore
        /\ \A c \in JclParentAdded :
              ScoreIn(ScoredRow, "list", c.graph, c.order, c.ctype, weights_config)
                  >= RecordedScore

\* a row of a no-risk type with one parent and no JCL parent has been scored,
\* and each of the three changes raises its score
C16_Witness ==
    /\ RowScored
    /\ ScoredRow.Type \in weights_config.no_risk_types
    /\ parent_count(ScoredRow) = 1
    /\ RecordedScore = weights_config.parent_low_score
    /\ \E row \in MoreParents :
          ScoreIn(row, req.dependencies_data, graph, order, ctype, weights_config)
              > RecordedScore
    /\ ScoreIn(ScoredRow, req.dependencies_data, graph, order, ctype, TypeMadeCritical)
          > RecordedScore
    /\ \E c \in JclParentAdded :
          ScoreIn(ScoredRow, "list", c.graph, c.order, c.ctype, weights_config)
              > RecordedScore

\* what the type tier added to the recorded score: the score less the parent
\* tier and the JCL bonus
TypeContribution ==
    RecordedScore
    - parent_score(res.risk_scores[ScoredRow.Name].parent_count, weights_config)
    - jcl_score(ScoredRow.Name, req.dependencies_data, graph, order, ctype, weights_config)

\* C17: a type on the no-risk list adds nothing, whatever other lists name it;
\* any other type adds the critical bonus if the critical list names it,
\* else the high-risk bonus if the high-risk list does, else the medium-risk
\* bonus if the medium-risk list does, else nothing.
C17_NoRiskListFirst ==
    RowScored =>
        LET t == ScoredRow.Type
            c == weights_config
        IN  /\ t \in c.no_risk_types => TypeContribution = 0
            /\ t \notin c.no_risk_types /\ t \in c.critical_types =>
                  TypeContribution = c.critical_type_score
            /\ t \notin c.no_risk_types \cup c.critical_types /\ t \in c.high_risk_types =>
                  TypeContribution = c.high_risk_type_score
            /\ /\ t \notin c.no_risk_types \cup c.critical_types \cup c.high_risk_types
               /\ t \in c.medium_risk_types
               => TypeContribution = c.medium_risk_type_score
            /\ t \notin c.no_risk_types \cup c.critical_types \cup c.high_risk_types
                        \cup c.medium_risk_types
               => TypeContribution = 0

\* a row whose type is on the no-risk list and on the critical list has been
\* scored, and the type tier added nothing
C17_Witness ==
    /\ RowScored
    /\ ScoredRow.Type \in weights_config.no_risk_types \cap weights_config.critical_types
    /\ TypeContribution = 0
    /\ "No-risk component type" \in Range(res.risk_scores[ScoredRow.Name].risk_factors)

\* a row whose type is on the high-risk and on the medium-risk list has been
\* scored as a high-risk type
C17_WitnessPrecedence ==
    /\ RowScored
    /\ ScoredRow.Type \in weights_config.high_risk_types \cap weights_config.medium_risk_types
    /\ TypeContribution = weights_config.high_risk_type_score

\* C18: every scored record has exactly one of the four levels: CRITICAL iff
\* its score is at least the critical threshold, else HIGH iff at least the
\* high threshold, else MEDIUM iff at least the medium threshold, else LOW.
C18_LevelByDescendingThresholds ==
    \A n \in DOMAIN res.risk_scores :
        LET e == res.risk_scores[n]
            c == weights_config
        IN  /\ e.risk_level \in {"CRITICAL", "HIGH", "MEDIUM", "LOW"}
            /\ e.risk_level = "CRITICAL" <=> e.risk_score >= c.critical_threshold
            /\ e.risk_score < c.critical_threshold =>
                  (e.risk_level = "HIGH" <=> e.risk_score >= c.high_threshold)
            /\ e.risk_score < c.critical_threshold /\ e.risk_score < c.high_threshold =>
                  (e.risk_level = "MEDIUM" <=> e.risk_score >= c.medium_threshold)
            /\ /\ e.risk_score < c.critical_threshold
               /\ e.risk_score < c.high_threshold
               /\ e.risk_score < c.medium_threshold
               => e.risk_level = "LOW"

\* a record whose score is exactly the high threshold has been given HIGH
C18_Witness ==
    \E n \in DOMAIN res.risk_scores :
        /\ res.risk_scores[n].risk_score = weights_config.high_threshold
        /\ res.risk_scores[n].risk_level = "HIGH"

\* records of all four levels are scored
C18_WitnessCritical ==
    \E n \in DOMAIN res.risk_scores :
        /\ res.risk_scores[n].risk_score >= weights_config.critical_threshold
        /\ res.risk_scores[n].risk_level = "CRITICAL"

C18_WitnessLow ==
    \E n \in DOMAIN res.risk_scores :
        /\ res.risk_scores[n].risk_score < weights_config.medium_threshold
        /\ res.risk_scores[n].risk_level = "LOW"

----------------------------------------------------------------------------
(* Claims about the assessment. *)

Summarised == pc = "summarised"

Critical == CountLevel(res.risk_scores, "CRITICAL")

High == CountLevel(res.risk_scores, "HIGH")

Medium == CountLevel(res.risk_scores, "MEDIUM")

\* the overall risk that the counts of the levels call for
OverallByCounts ==
    IF Critical > 0 THEN "CRITICAL"
    ELSE IF High > weights_config.high_risk_count_threshold THEN "HIGH"
    ELSE IF High > 0 \/ Medium > weights_config.medium_risk_count_threshold THEN "MEDIUM"
    ELSE "LOW"

\* C19 as stated: for every set of scored records, the empty one included,
\* the overall risk is CRITICAL if a record is CRITICAL, else HIGH if the
\* HIGH count exceeds its threshold, else MEDIUM if the HIGH count is
\* positive or the MEDIUM count exceeds its threshold, else LOW.
C19_OverallRiskAsStated ==
    Summarised => res.overall_risk = OverallByCounts

\* C19, amended: for every non-empty set of scored records the overall risk
\* is CRITICAL if a record is CRITICAL, else HIGH if the HIGH count exceeds
\* its threshold, else MEDIUM if the HIGH count is positive or the MEDIUM
\* count exceeds its threshold, else LOW; for the empty set it is UNKNOWN.
C19_OverallRiskOfScored ==
    Summarised =>
        /\ DOMAIN res.risk_scores # {} => res.overall_risk = OverallByCounts
        /\ DOMAIN res.risk_scores = {} => res.overall_risk = "UNKNOWN"

\* two HIGH records and no CRITICAL one, above a count threshold of one: HIGH
C19_Witness ==
    /\ Summarised
    /\ Critical = 0
    /\ High > weights_config.high_risk_count_threshold
    /\ res.overall_risk = "HIGH"

\* one HIGH record, not above the count threshold: MEDIUM
C19_WitnessMediumByHigh ==
    /\ Summarised
    /\ Critical = 0
    /\ High = 1
    /\ High <= weights_config.high_risk_count_threshold
    /\ res.overall_risk = "MEDIUM"

\* no HIGH record and MEDIUM records above their count threshold: MEDIUM
C19_WitnessMediumByCount ==
    /\ Summarised
    /\ Critical = 0
    /\ High = 0
    /\ Medium > weights_config.medium_risk_count_threshold
    /\ res.overall_risk = "MEDIUM"

\* a MEDIUM record alone: LOW
C19_WitnessLow ==
    /\ Summarised
    /\ Medium = 1
    /\ res.overall_risk = "LOW"

C19_WitnessCritical ==
    /\ Summarised
    /\ Critical > 0
    /\ High > 0
    /\ res.overall_risk = "CRITICAL"

\* no record was scored: UNKNOWN
C19_WitnessEmpty ==
    /\ Summarised
    /\ missing_data = <<>>
    /\ res.overall_risk = "UNKNOWN"

totalComponents == Len(order)

missingCount == Len(missing_data)

ContextPresent == req.dependencies_data = "list"

HasMessage(completeness) == "message" \in DOMAIN completeness

\* C20 as stated: with dependency context and totalComponents > 0 the score
\* is (totalComponents - missingCount) / totalComponents * 100 (the score is
\* held in tenths, so score * totalComponents is a thousand times the
\* difference); without context or with no component it is 0 and comes with
\* a message.
C20_CompletenessAsStated ==
    Summarised =>
        LET c == res.completeness_score
        IN  /\ ContextPresent /\ totalComponents > 0 =>
                  c.score * totalComponents = 1000 * (totalComponents - missingCount)
            /\ ~ContextPresent \/ totalComponents = 0 => c.score = 0 /\ HasMessage(c)

Abs(x) == IF x < 0 THEN -x ELSE x

\* C20, amended: with dependency context and totalComponents > 0 the score
\* is (totalComponents - missingCount) / totalComponents * 100 rounded to one
\* decimal, so within half a tenth of that value, and no message is given;
\* without context or with no component it is 0 and comes with a message.
C20_CompletenessRounded ==
    Summarised =>
        LET c == res.completeness_score
        IN  /\ ContextPresent /\ totalComponents > 0 =>
                  /\ 2 * Abs(c.score * totalComponents
                             - 1000 * (totalComponents - missingCount)) <= totalComponents
                  /\ ~HasMessage(c)
            /\ ~ContextPresent \/ totalComponents = 0 => c.score = 0 /\ HasMessage(c)

\* one of three components is missing: the score is 66.7
C20_Witness ==
    /\ Summarised
    /\ ContextPresent
    /\ totalComponents = 3
    /\ missingCount = 1
    /\ res.completeness_score.score = 667

\* an empty component list: score 0 with the message
C20_WitnessNoComponents ==
    /\ Summarised
    /\ ContextPresent
    /\ totalComponents = 0
    /\ missingCount > 0
    /\ res.completeness_score.score = 0
    /\ HasMessage(res.completeness_score)

\* no dependency data at all: score 0 with the message
C20_WitnessNoContext ==
    /\ Summarised
    /\ ~ContextPresent
    /\ res.completeness_score.score = 0
    /\ HasMessage(res.completeness_score)

\* a table of k rows
TableOf(k) == [i \in 1..k |-> [Name |-> ParentsOf(i)[i], Type |-> "Unlisted",
                               Parents |-> <<>>]]

\* C21: with the components fixed and at least one of them, a table with
\* more missing rows never has a larger completeness score than the one
\* reported.
C21_CompletenessDecreasing ==
    Summarised /\ ContextPresent /\ totalComponents > 0 =>
        \A k \in missingCount..(MaxRows + 1) :
            calculate_completeness_score(TableOf(k), req.dependencies_data, order).score
                <= res.completeness_score.score

\* one of three components is missing, and a second missing row lowers the
\* score
C21_Witness ==
    /\ Summarised
    /\ ContextPresent
    /\ totalComponents = 3
    /\ missingCount = 1
    /\ calculate_completeness_score(TableOf(2), req.dependencies_data, order).score
          < res.completeness_score.score

----------------------------------------------------------------------------
(* Claims about the reading of the query. *)

\* a keyword of the group is in the query, whatever the case of either
Hits(group) ==
    \E keyword \in group_keywords(group) : Contained(lower(keyword), lower(req.query.text))

Answered == pc = "answered" /\ res.op = "analyze_dependencies"

IsTypeListing(out) ==
    /\ "query_interpretation" \in DOMAIN out
    /\ "query_type" \in DOMAIN out.query_interpretation
    /\ out.query_interpretation.query_type = "component_type_search"

ListingOver(out, group) ==
    /\ IsTypeListing(out)
    /\ out.query_interpretation.types_requested = group_types(group)
    /\ out.query_interpretation.description = group_description(group)
    /\ \A i \in 1..Len(out.dependency_results) :
          out.dependency_results[i].component_type \in Range(group_types(group))

C22_WitnessTargeted ==
    /\ Answered
    /\ req.query.text = <<"A">>
    /\ "error" \notin DOMAIN res.out
    /\ "targets_identified" \in DOMAIN res.out.query_interpretation

----------------------------------------------------------------------------
(* SpecTargets: extract_targets_from_query on component names that differ   *)
(* by case only, and on texts of up to two words.                           *)

TargetNames == {"Ab", "aB", "B"}

TargetTokens == {"AB", "Ab", "B", "X", "ab"}

\* the lists of distinct component names, in the order of the dict
TargetOrders == UNION {{o \in [1..k -> TargetNames] :
                           \A i \in 1..k : \A j \in 1..k : o[i] = o[j] => i = j} :
                       k \in 0..Cardinality(TargetNames)}

\* texts of up to two tokens, a blank between them
TargetTexts ==
    {<<>>} \cup {Chars(p) : p \in TargetTokens}
    \cup {Chars(p) \o <<" ">> \o Chars(q) : p \in TargetTokens, q \in TargetTokens}

\* largest number of pattern matches of a text
MaxMatches == 2

\* a text and the matches of the patterns, tokens that are in the text
TargetQueries ==
    {q \in [text : TargetTexts, matches : SeqsOver(TargetTokens, MaxMatches)] :
        \A i \in 1..Len(q.matches) : Contained(Chars(q.matches[i]), q.text)}

InitTargets ==
    /\ order \in TargetOrders
    /\ graph = [n \in Range(order) |-> <<>>]
    /\ ctype = [n \in Range(order) |-> "COB"]
    /\ \E q \in TargetQueries : req = [query |-> q]
    /\ res = [op |-> "none"]
    /\ pc = "extract"
    /\ NoInvocation
    /\ NoRankingState

\* line 144: targets are extracted from the query
Extract ==
    /\ pc = "extract"
    /\ \E perm \in Perms(Range(order)) :
          res' = [op |-> "extract_targets_from_query",
                  out |-> extract_targets_from_query(req.query, order, perm)]
    /\ pc' = "extracted"
    /\ UNCHANGED <<graph, order, ctype, closureVars, rankVars>>

NextTargets == Extract

SpecTargets == InitTargets /\ [][NextTargets]_vars

SameIgnoringCase(a, b) == lower(Chars(a)) = lower(Chars(b))

\* the match names a component, exactly or but for the case
Resolves(match) == \E n \in Range(order) : SameIgnoringCase(n, match)

\* the component a resolving match stands for: itself if it is a component
\* name, else the first component name that equals it but for the case
ResolutionOf(match) ==
    IF match \in Range(order) THEN match
    ELSE order[CHOOSE i \in 1..Len(order) :
                   /\ SameIgnoringCase(order[i], match)
                   /\ \A j \in 1..(i - 1) : ~SameIgnoringCase(order[j], match)]

PatternTargets ==
    {ResolutionOf(req.query.matches[i]) :
        i \in {k \in 1..Len(req.query.matches) : Resolves(req.query.matches[k])}}

ContainedTargets ==
    {n \in Range(order) : Contained(upper(Chars(n)), upper(req.query.text))}

\* C23: the targets returned are distinct component names; they are what the
\* pattern matches resolve to, a match that is no component name resolving to
\* the first component name equal to it but for the case, if any match
\* resolves, and the component names contained in the upper-cased text if and
\* only if none does.
C23_TargetsExtracted ==
    pc = "extracted" =>
        /\ \A i \in 1..Len(res.out) : \A j \in 1..Len(res.out) :
              res.out[i] = res.out[j] => i = j
        /\ Range(res.out) \subseteq Range(order)
        /\ PatternTargets # {} => Range(res.out) = PatternTargets
        /\ PatternTargets = {} => Range(res.out) = ContainedTargets

\* 'AB' is matched twice and is no component name: it resolves, once, to
\* 'aB', listed before 'Ab', and 'B', contained in the text, is not returned
C23_Witness ==
    /\ pc = "extracted"
    /\ order = <<"B", "aB", "Ab">>
    /\ req.query.matches = <<"AB", "AB">>
    /\ res.out = <<"aB">>
    /\ "B" \in ContainedTargets

\* no match resolves, and the names contained in the text are returned
C23_WitnessFallback ==
    /\ pc = "extracted"
    /\ req.query.matches = <<"X">>
    /\ PatternTargets = {}
    /\ Len(res.out) = 2
    /\ Range(res.out) = ContainedTargets

----------------------------------------------------------------------------
(* SpecWeight: get_component_priority_weight_local on one type and one      *)
(* weight configuration.                                                    *)

\* COMPONENT_WEIGHTS naming a medium type and an ignored type as priority
\* types with weights of their own, and an ignored type as a medium type
overlapping_config ==
    [default_config EXCEPT
        !.priority_types = [t \in DOMAIN @ \cup {"DATASET", "System"} |->
                               IF t = "DATASET" THEN 9
                               ELSE IF t = "System" THEN 8
                               ELSE IF t = "JCL" THEN 5
                               ELSE @[t]],
        !.medium_types = [t \in DOMAIN @ \cup {"Unknown"} |->
                             IF t = "Unknown" THEN 6 ELSE @[t]]]

\* COMPONENT_WEIGHTS with empty sections
empty_config ==
    [default_config EXCEPT !.priority_types = <<>>, !.medium_types = <<>>]

WeightConfigs == {default_config, overlapping_config, empty_config}

\* the types of every section, and types of none
WeightTypes ==
    DOMAIN overlapping_config.priority_types \cup DOMAIN overlapping_config.medium_types
    \cup ignored_types \cup {"Unrecognized", "", "jcl"}

InitWeight ==
    /\ weights_config \in WeightConfigs
    /\ req \in [component_type : WeightTypes]
    /\ res = [op |-> "none"]
    /\ pc = "lookup"
    /\ NoGraph
    /\ NoInvocation
    /\ missing_data = <<>>
    /\ missing_by_parent = <<>>
    /\ transaction_mapping = {}
    /\ scan_pos = 0
    /\ entry_point_candidates = <<>>
    /\ ranking = [ranked_entry_points |-> <<>>]

\* lines 286-323
LookupWeight ==
    /\ pc = "lookup"
    /\ res' = [op |-> "get_component_priority_weight_local",
               out |-> get_component_priority_weight_local(req.component_type,
                                                           weights_config)]
    /\ pc' = "looked_up"
    /\ UNCHANGED <<graph, order, ctype, closureVars, rankVars>>

NextWeight == LookupWeight

SpecWeight == InitWeight /\ [][NextWeight]_vars

\* C24: every type has a weight: that of the priority section if the section
\* names it, else that of the medium section if that one names it, else 0 if
\* it is an ignored type, else the default of 0.3 (weights in tenths).
C24_WeightLookupTotal ==
    pc = "looked_up" =>
        LET t == req.component_type
            c == weights_config
        IN  /\ res.out \in Nat
            /\ t \in DOMAIN c.priority_types => res.out = c.priority_types[t]
            /\ t \notin DOMAIN c.priority_types /\ t \in DOMAIN c.medium_types =>
                  res.out = c.medium_types[t]
            /\ /\ t \notin DOMAIN c.priority_types \cup DOMAIN c.medium_types
               /\ t \in ignored_types
               => res.out = 0
            /\ t \notin DOMAIN c.priority_types \cup DOMAIN c.medium_types \cup ignored_types
               => res.out = 3

\* a type named by the priority and by the medium section has the weight of
\* the priority section
C24_Witness ==
    /\ pc = "looked_up"
    /\ req.component_type \in DOMAIN weights_config.priority_types
    /\ req.component_type \in DOMAIN weights_config.medium_types
    /\ weights_config.priority_types[req.component_type]
          # weights_config.medium_types[req.component_type]
    /\ res.out = weights_config.priority_types[req.component_type]

\* a type of no section has the default weight
C24_WitnessUnrecognized ==
    /\ pc = "looked_up"
    /\ req.component_type = "Unrecognized"
    /\ res.out = 3

\* an ignored type that the medium section names has the medium weight
C24_WitnessIgnoredLast ==
    /\ pc = "looked_up"
    /\ req.component_type \in ignored_types
    /\ res.out = 6

----------------------------------------------------------------------------
(* Claims about the entry points that execute the target. *)

\* the known components of the target category among the dependencies of n,
\* direct or transitive
ExecutedBy(n) ==
    {d \in Reachable(graph, n) \cap DOMAIN ctype :
        ctype[d] \in target_component_types(req.target_type)}

Scanned == {order[i] : i \in 1..(IF scan_pos > Len(order) THEN Len(order) ELSE scan_pos - 1)}

CandidateNames ==
    {entry_point_candidates[i].component_name : i \in 1..Len(entry_point_candidates)}

\* C25: a scanned component is a candidate if and only if it is an eligible
\* entry point and a known component of the target category is among its
\* direct or transitive dependencies; a candidate's execution details name
\* exactly those components, as Direct the ones of its adjacency list and as
\* Transitive the others; and every ranked entry point is such a candidate.
C25_ExecutesTarget ==
    /\ res.op \in {"none", "rank"} /\ pc \in {"scan", "done"} =>
          /\ \A n \in Scanned :
                n \in CandidateNames <=>
                    /\ is_entry_point_accurate(ctype[n], req.entry_point_types)
                    /\ ExecutedBy(n) # {}
          /\ \A i \in 1..Len(entry_point_candidates) :
                LET c == entry_point_candidates[i]
                IN  /\ Range(c.executes) = ExecutedBy(c.component_name)
                    /\ {e.component : e \in Range(c.execution_details)}
                          = ExecutedBy(c.component_name)
                    /\ \A e \in Range(c.execution_details) :
                          /\ e.access_level = "Direct"
                                <=> e.component \in Succ(graph, c.component_name)
                          /\ e.access_level = "Transitive"
                                <=> e.component \notin Succ(graph, c.component_name)
    /\ pc = "done" =>
          \A i \in 1..Len(ranking.ranked_entry_points) :
             LET n == ranking.ranked_entry_points[i].component_name
             IN  /\ is_entry_point_accurate(ctype[n], req.entry_point_types)
                 /\ ExecutedBy(n) # {}

\* a job with a dataset in its adjacency list and a CICS file behind it is
\* ranked, the first tagged Direct and the second Transitive, and a component
\* that is no entry point is not ranked
C25_Witness ==
    /\ pc = "done"
    /\ req.target_type = "vsam_reference"
    /\ Len(ranking.ranked_entry_points) = 1
    /\ \E e \in Range(ranking.ranked_entry_points[1].execution_details) :
          e.access_level = "Direct"
    /\ \E e \in Range(ranking.ranked_entry_points[1].execution_details) :
          e.access_level = "Transitive"
    /\ \E n \in Range(order) :
          ~is_entry_point_accurate(ctype[n], req.entry_point_types)

\* a job executes the target through a transitive dependency only
C25_WitnessTransitiveOnly ==
    /\ pc = "done"
    /\ Len(ranking.ranked_entry_points) > 0
    /\ \A e \in Range(ranking.ranked_entry_points[1].execution_details) :
          e.access_level = "Transitive"

\* nothing executes an unknown category
C25_WitnessUnknownCategory ==
    /\ pc = "done"
    /\ target_component_types(req.target_type) = {}
    /\ Len(order) = 3
    /\ ranking.ranked_entry_points = <<>>

----------------------------------------------------------------------------
(* Claims about the work of the closure. *)

\* C26: within one invocation of get_all_transitive_dependencies the
\* adjacency list of every node is walked at most once, on diamonds and on
\* cycles too.
C26_ExpandedAtMostOnce ==
    \A n \in Names : expanded[n] <= 1

\* what the JCL factor added to the recorded score: the score less the parent
\* tier and the type tier
JclContribution ==
    RecordedScore
    - parent_score(res.risk_scores[ScoredRow.Name].parent_count, weights_config)
    - type_score(ScoredRow.Type, weights_config)

\* the JCL components that list the row's name as a dependency
JclParentsOfRow ==
    {c \in DOMAIN graph : ScoredRow.Name \in Range(graph[c]) /\ ctype[c] = "JCL"}

\* C27: the JCL bonus is in the score of a record once if dependency data is
\* there and a JCL component lists the record's name, however many do, and
\* not at all otherwise, in particular never without dependency data.
C27_JclBonusOnce ==
    RowScored =>
        /\ JclContribution \in {0, weights_config.jcl_parent_bonus}
        /\ JclContribution = weights_config.jcl_parent_bonus
              <=> (ContextPresent /\ JclParentsOfRow # {})
        /\ Len(SelectSeq(res.risk_scores[ScoredRow.Name].risk_factors,
                         LAMBDA f : f = "Referenced by JCL"))
              = IF ContextPresent /\ JclParentsOfRow # {} THEN 1 ELSE 0

\* two JCL components list the record's name, and the bonus is in its score
\* once
C27_Witness ==
    /\ RowScored
    /\ ContextPresent
    /\ Cardinality(JclParentsOfRow) = 2
    /\ JclContribution = weights_config.jcl_parent_bonus

\* without dependency data no bonus is added
C27_WitnessNoContext ==
    /\ RowScored
    /\ ~ContextPresent
    /\ JclContribution = 0

----------------------------------------------------------------------------
(* Claims about the frame of the scoring. *)

\* C28: whatever candidates were scored, missing_by_parent holds the lists
\* it held when it was built from the missing-component table.
C28_MissingByParentUnchanged ==
    res.op \in {"none", "rank"} /\ pc \in {"scan", "done"} =>
        missing_by_parent = build_missing_by_parent(missing_data, weights_config)

-----------------------------------------------------------------------------
(* SpecCaps: analyze_dependencies on targeted queries under small limits and
   under a component-type filter *)

\* the largest of the small limits
MaxCap == 1

\* lines 81-88: the limits of the environment; the per-target limits are all
\* d, the limits of the response are both MaxCap or are the defaults
CapLimits ==
    {[default_limits EXCEPT !.direct_deps_limit = d, !.transitive_chains_limit = d,
                            !.dependents_limit = d, !.dependencies_limit = d,
                            !.results_limit = MaxCap, !.chains_results_limit = MaxCap,
                            !.max_depth = MaxDepth] : d \in 0..MaxCap}
    \cup
    {[default_limits EXCEPT !.direct_deps_limit = d, !.transitive_chains_limit = d,
                            !.dependents_limit = d, !.dependencies_limit = d,
                            !.max_depth = MaxDepth] : d \in 0..MaxCap}

\* line 77: the component_types of the request
CapFilters == {{}, {"COB"}}

\* texts of component names, without keyword and without pattern match: the
\* targets are the names contained in the text
CapQueries ==
    {q \in Queries : NoKeyword(q) /\ q.matches = <<>> /\ Range(q.text) \subseteq {"A", "b"}}

InitCaps ==
    /\ graph \in RankGraphs
    /\ order = Prefix(Cardinality(DOMAIN graph))
    /\ ctype = [n \in DOMAIN graph |-> TypeOfName[n]]
    /\ req \in [query : CapQueries,
                include_transitive : BOOLEAN,
                component_types : CapFilters,
                limits : CapLimits]
    /\ res = [op |-> "none"]
    /\ pc = "query"
    /\ NoInvocation
    /\ NoRankingState

NextCaps == Analyze

SpecCaps == InitCaps /\ [][NextCaps]_vars

\* a targeted analysis has been answered
TargetedAnswer ==
    /\ pc = "answered"
    /\ res.op = "analyze_dependencies"
    /\ "error" \notin DOMAIN res.out
    /\ "targets_identified" \in DOMAIN res.out.query_interpretation

\* the dependents that the target contributes to the results
DependentsOf(target) ==
    SelectSeq(res.out.dependency_results, LAMBDA r :
        ~r.is_target /\ r.access_type = "Would Be Affected" /\ r.direction[2] = target)

\* the dependencies that the target contributes to the results
DependenciesOf(target) ==
    SelectSeq(res.out.dependency_results, LAMBDA r :
        ~r.is_target /\ r.access_type = "Required By Target" /\ r.direction[1] = target)

\* the chains that the target contributes to the response
ChainsContributed(target) ==
    SelectSeq(res.out.transitive_chains, LAMBDA c : c.source = target)

\* C29: the response to a targeted query has at most results_limit results
\* and at most chains_results_limit chains, each target contributes at most
\* dependents_limit dependents, dependencies_limit dependencies and
\* transitive_chains_limit chains, and under a component-type filter every
\* result has a type of the filter
C29_ResultCaps ==
    TargetedAnswer =>
        /\ Len(res.out.dependency_results) <= req.limits.results_limit
        /\ Len(res.out.transitive_chains) <= req.limits.chains_results_limit
        /\ \A target \in Range(res.out.query_interpretation.targets_identified) :
              /\ Len(DependentsOf(target)) <= req.limits.dependents_limit
              /\ Len(DependenciesOf(target)) <= req.limits.dependencies_limit
              /\ Len(ChainsContributed(target)) <= req.limits.transitive_chains_limit
        /\ req.component_types # {} =>
              \A i \in 1..Len(res.out.dependency_results) :
                  res.out.dependency_results[i].component_type \in req.component_types

\* two targets, one of them with more dependencies than dependencies_limit,
\* and each contributes exactly dependencies_limit of them
C29_Witness ==
    /\ TargetedAnswer
    /\ req.limits.dependencies_limit = 1
    /\ req.limits.results_limit > MaxCap
    /\ req.component_types = {}
    /\ Len(res.out.query_interpretation.targets_identified) = 2
    /\ \E target \in Range(res.out.query_interpretation.targets_identified) :
          Len(graph[target]) > 1
    /\ \A target \in Range(res.out.query_interpretation.targets_identified) :
          Len(DependenciesOf(target)) = 1

\* the response is cut at results_limit: more results were collected than
\* are returned
C29_WitnessResponseCut ==
    /\ TargetedAnswer
    /\ res.out.impact_scope.total_components > req.limits.results_limit
    /\ Len(res.out.dependency_results) = req.limits.results_limit
    /\ Len(res.out.transitive_chains) = req.limits.chains_results_limit
    /\ req.limits.results_limit > 0

\* the filter drops a target and keeps a dependent of it
C29_WitnessFilter ==
    /\ TargetedAnswer
    /\ req.component_types = {"COB"}
    /\ res.out.query_interpretation.targets_identified = <<"A">>
    /\ Len(DependentsOf("A")) = 1
    /\ res.out.dependency_results[1].component_name = "B"

\* C30: with dependency context the completeness score is a percentage from
\* 0 to 100 (0 to 1000 tenths) and available_components is not negative,
\* also when the missing table has more rows than there are components
C30_CompletenessInRange ==
    Summarised /\ ContextPresent /\ totalComponents > 0 =>
        /\ res.completeness_score.score >= 0
        /\ res.completeness_score.score <= 1000
        /\ res.completeness_score.available_components >= 0

====
